---- MODULE Spec2Model ----
(***************************************************************************)
(* A model of the conjoint-analysis scripts of SheRockets/data_analysis:   *)
(* the wide-to-long choice-set builders, the attribute coding and feature  *)
(* selection, the (abstracted) logistic fit, the p-value and percentage-   *)
(* point computations and the assembly of the result table.                *)
(*                                                                         *)
(* Strings that the code takes apart (column names, level codes) are       *)
(* sequences of tokens, so that suffix tests, replace() and lookups are    *)
(* computed and not assumed.  Real numbers are rationals <<num, den>>.     *)
(***************************************************************************)
EXTENDS Integers, Sequences, FiniteSets, TLC

VARIABLES
    df,           \* the wide table read from the CSV: one row per respondent
    pc,           \* position of the running script
    script,       \* which script's pipeline is running
    choice_data,  \* the long / choice-format table the builder produced
    error,        \* the exception that ended the run, "none" if none
    design,       \* what the script handed to the estimator: columns, X and y
    fit,          \* what the estimator returned
    results,      \* the result table of the run
    caught,       \* the exceptions an except clause of the run swallowed
    lookup,       \* a level, the column named after it, the level looked up from it
    rating_data,  \* the rating table of EnhancedConjointAnalyzer
    utilities,    \* ConjointAnalyzer.utilities: attribute -> level -> part-worth
    importance,   \* ConjointAnalyzer.importance: attribute -> percentage
    completed,    \* the methods of the analyzer object that returned, in order
    files         \* the files the run has written

vars == <<df, pc, script, choice_data, error, design, fit, results, caught, lookup, rating_data,
          utilities, importance, completed, files>>

----------------------------------------------------------------------------
(* Bounds of the model and constants of the program *)

NumResp == 1

NBootstrap == 2

BlockLen == 3

NumTasks == 8

----------------------------------------------------------------------------
(* The study design: attributes and level values as they appear in the CSV *)

Attrs == <<"Tutor", "Color_palette", "Pricing", "Message_success_",
           "Message_failure_", "Storytelling", "Role_play">>

AttrSet == {Attrs[i] : i \in 1..Len(Attrs)}

Alts == <<"A", "B">>

Tasks == 1..NumTasks

NaN == "nan"

FemaleTutor == "Female AI tutor"
MaleTutor == "Male AI tutor"
FriendlyColors == "Friendly & warm (coral / lavender / peach)"
TechColors == "Tech & bold (deep blue / black / neon)"
SchoolPays == "School pays (free for families)"
Price499 == "Free trial + $4.99/month"
Price799 == "Free trial + $7.99/month"
Price999 == "Free trial + $9.99/month"
Price1299 == "Free trial + $12.99/month"
GrowthMsg == "Great job - your effort and persistence helped you solve this!"
BrillianceMsg == "You solved it so quickly - you must have a really special talent for science!"
(* Three values hold an apostrophe or quotation marks, which the scripts'   *)
(* level tables spell with typographic (U+2019, U+201C) or with plain      *)
(* ASCII characters; the CSV holds one of the two spellings.               *)
SupportiveMsgCurly == "That didn{u2019}t work, but mistakes are how scientists learn. Let{u2019}s try another design."
SupportiveMsgPlain == "That didn't work, but mistakes are how scientists learn. Let's try another design."
NeutralMsgCurly == "This design didn{u2019}t launch successfully. Here is what went wrong."
NeutralMsgPlain == "This design didn't launch successfully. Here is what went wrong."
RescueStoryCurly == "Space rescue story: {u201C}Your spaceship must deliver medicine to astronauts stranded on the Moon before their oxygen runs out.{u201D}"
RescueStoryPlain == "Space rescue story: \"Your spaceship must deliver medicine to astronauts stranded on the Moon before their oxygen runs out.\""
NoStory == "No story: Just design and test rockets in a sandbox-style game."
HeroAstronaut == "Hero astronaut: You are the astronaut in charge - the team is counting on you to complete this mission."
NoSpecificRole == "No specific role: Just design a rocket and see how it works."

(* The substrings the scripts search level values for, per value:          *)
(* Contains(needle, v) is Python's  needle in str(v).                      *)
Keywords(v) ==
    CASE v = FemaleTutor -> {"Female"}
      [] v = MaleTutor -> {"Male"}
      [] v = FriendlyColors -> {"Friendly", "Friendly & warm"}
      [] v = TechColors -> {"Tech & bold"}
      [] v = SchoolPays -> {"School pays"}
      [] v = Price499 -> {"$4.99"}
      [] v = Price799 -> {"$7.99"}
      [] v = Price999 -> {"$9.99"}
      [] v = Price1299 -> {"$12.99"}
      [] v = GrowthMsg -> {"effort and persistence"}
      [] v = BrillianceMsg -> {"special talent"}
      [] v \in {SupportiveMsgCurly, SupportiveMsgPlain} -> {"mistakes are how scientists learn"}
      [] v \in {NeutralMsgCurly, NeutralMsgPlain} -> {"Here is what went wrong"}
      [] v \in {RescueStoryCurly, RescueStoryPlain} -> {"Space rescue story"}
      [] v = NoStory -> {"No story"}
      [] v = HeroAstronaut -> {"Hero astronaut"}
      [] v = NoSpecificRole -> {"No specific role"}
      [] OTHER -> {}

Contains(needle, v) == needle \in Keywords(v)

----------------------------------------------------------------------------
(* The wide table.  A column name is <<prefix, separator, name, task>>:    *)
(*   Task{t}_choice, {alt}_{attr}{t}, Task{t}_perceivedlearning, ...       *)

ChoiceCol(t) == <<"Task", "", "_choice", t>>
LearningCol(t) == <<"Task", "", "_perceivedlearning", t>>
EnjoymentCol(t) == <<"Task", "", "_expectedenjoyment", t>>
AttrCol(alt, attr, t) == <<alt, "_", attr, t>>
GradeCol == <<"Grade", "", "", 0>>
ProlificCol == <<"Prolific_ID", "", "", 0>>

AttrCols(T) == {AttrCol(Alts[a], Attrs[i], t) : a \in 1..2, i \in 1..Len(Attrs), t \in T}

AllColumns(T) ==
    {GradeCol, ProlificCol}
    \cup {ChoiceCol(t) : t \in T} \cup {LearningCol(t) : t \in T}
    \cup {EnjoymentCol(t) : t \in T} \cup AttrCols(T)

(* One task of one respondent as the survey recorded it *)
Cell(choice, a, b, learning, enjoyment) ==
    [choice |-> choice, A |-> a, B |-> b, learning |-> learning, enjoyment |-> enjoyment]

CellValue(cells, c) ==
    IF c = GradeCol THEN "5"
    ELSE IF c = ProlificCol THEN "pid"
    ELSE IF c[1] = "Task"
         THEN (IF c[3] = "_choice" THEN cells[c[4]].choice
               ELSE IF c[3] = "_perceivedlearning" THEN cells[c[4]].learning
               ELSE cells[c[4]].enjoyment)
    ELSE cells[c[4]][c[1]][c[3]]

(* A CSV row: the cells of a respondent laid out over the columns present *)
RowOf(cells, columns) == [c \in columns |-> CellValue(cells, c)]

(* Level assignments of one alternative *)
Profile(tutor, color, pricing, succ, fail, story, role) ==
    [a \in AttrSet |->
        CASE a = "Tutor" -> tutor
          [] a = "Color_palette" -> color
          [] a = "Pricing" -> pricing
          [] a = "Message_success_" -> succ
          [] a = "Message_failure_" -> fail
          [] a = "Storytelling" -> story
          [] a = "Role_play" -> role]

(* The spelling of the CSV: "curly" or "plain" *)
Typography == {"curly", "plain"}

SupportiveMsg(ty) == IF ty = "curly" THEN SupportiveMsgCurly ELSE SupportiveMsgPlain
NeutralMsg(ty) == IF ty = "curly" THEN NeutralMsgCurly ELSE NeutralMsgPlain
RescueStory(ty) == IF ty = "curly" THEN RescueStoryCurly ELSE RescueStoryPlain

ProfileHigh(ty) == Profile(FemaleTutor, FriendlyColors, SchoolPays, GrowthMsg,
                           SupportiveMsg(ty), RescueStory(ty), HeroAstronaut)
ProfileLow(ty) == Profile(MaleTutor, TechColors, Price1299, BrillianceMsg,
                          NeutralMsg(ty), NoStory, NoSpecificRole)
ProfileMid(ty) == Profile(FemaleTutor, TechColors, Price799, GrowthMsg,
                          NeutralMsg(ty), NoStory, HeroAstronaut)
Profile499(ty) == Profile(FemaleTutor, TechColors, Price499, GrowthMsg,
                          NeutralMsg(ty), NoStory, HeroAstronaut)
Profile999(ty) == Profile(MaleTutor, FriendlyColors, Price999, BrillianceMsg,
                          SupportiveMsg(ty), RescueStory(ty), NoSpecificRole)

(* Rows whose cells repeat a block of BlockLen cells over the tasks *)
CellRows(cellSet) ==
    {[t \in Tasks |-> block[((t - 1) % BlockLen) + 1]] : block \in [1..BlockLen -> cellSet]}

Tables(cellSet, columns) ==
    {[r \in 1..NumResp |-> RowOf(cs[r], columns)] : cs \in [1..NumResp -> CellRows(cellSet)]}

----------------------------------------------------------------------------
(* Helpers over the rows x tasks iteration of every builder *)

RowOfIndex(i) == ((i - 1) \div NumTasks) + 1
TaskOfIndex(i) == ((i - 1) % NumTasks) + 1

(* Concatenation of a sequence of sequences *)
RECURSIVE Flatten(_)
Flatten(ss) == IF ss = <<>> THEN <<>> ELSE Head(ss) \o Flatten(Tail(ss))

(* series.dropna().unique(): the values in order of first appearance *)
RECURSIVE Unique(_)
Unique(values) ==
    IF values = <<>> THEN <<>>
    ELSE LET front == Unique(SubSeq(values, 1, Len(values) - 1))
             last == values[Len(values)]
         IN IF last = NaN \/ \E j \in 1..Len(front) : front[j] = last
            THEN front ELSE Append(front, last)

----------------------------------------------------------------------------
(* simple_descriptive_conjoint.py: the builder that keeps the raw values *)

DescriptiveColumns ==
    {GradeCol} \cup {ChoiceCol(t) : t \in Tasks} \cup {LearningCol(t) : t \in Tasks}
    \cup {EnjoymentCol(t) : t \in Tasks} \cup AttrCols(Tasks)

convert_to_choice_format(table) ==
    [i \in 1..(Len(table) * NumTasks) |->
        LET row == table[RowOfIndex(i)]
            task == TaskOfIndex(i)
        IN [respondent_id |-> RowOfIndex(i) - 1,
            task |-> task,
            choice |-> row[ChoiceCol(task)],
            grade |-> row[GradeCol],
            perceived_learning |-> row[LearningCol(task)],
            expected_enjoyment |-> row[EnjoymentCol(task)],
            A |-> [a \in AttrSet |-> row[AttrCol("A", a, task)]],
            B |-> [a \in AttrSet |-> row[AttrCol("B", a, task)]]]]

----------------------------------------------------------------------------
(* proper_conjoint_analysis.py / final_robust_conjoint_analysis.py:        *)
(* effects coding and the builder of A - B difference records              *)

PricingKeys == <<"free", "4.99", "7.99", "9.99", "12.99">>

PricingCode(free, p499, p799, p999, p1299) ==
    [k \in {PricingKeys[i] : i \in 1..Len(PricingKeys)} |->
        CASE k = "free" -> free
          [] k = "4.99" -> p499
          [] k = "7.99" -> p799
          [] k = "9.99" -> p999
          [] k = "12.99" -> p1299]

Scalar(v) == [isdict |-> FALSE, val |-> v, d |-> <<>>]
Dict(d) == [isdict |-> TRUE, val |-> 0, d |-> d]

get_effects_coding(value, attr) ==
    CASE attr = "Tutor" -> Scalar(IF Contains("Female", value) THEN 1 ELSE -1)
      [] attr = "Color_palette" -> Scalar(IF Contains("Friendly", value) THEN 1 ELSE -1)
      [] attr = "Pricing" ->
            IF Contains("School pays", value) THEN Dict(PricingCode(1, 0, 0, 0, -1))
            ELSE IF Contains("$4.99", value) THEN Dict(PricingCode(0, 1, 0, 0, -1))
            ELSE IF Contains("$7.99", value) THEN Dict(PricingCode(0, 0, 1, 0, -1))
            ELSE IF Contains("$9.99", value) THEN Dict(PricingCode(0, 0, 0, 1, -1))
            ELSE Dict(PricingCode(-1, -1, -1, -1, 1))
      [] attr = "Message_success_" ->
            Scalar(IF Contains("effort and persistence", value) THEN 1 ELSE -1)
      [] attr = "Message_failure_" ->
            Scalar(IF Contains("mistakes are how scientists learn", value) THEN 1 ELSE -1)
      [] attr = "Storytelling" ->
            Scalar(IF Contains("Space rescue story", value) THEN 1 ELSE -1)
      [] attr = "Role_play" -> Scalar(IF Contains("Hero astronaut", value) THEN 1 ELSE -1)
      [] OTHER -> Scalar(0)

(* The columns one attribute adds to a difference record, in insertion order *)
EffectsColumnNames(attr, a_effects) ==
    IF a_effects.isdict
    THEN [k \in 1..Len(PricingKeys) |-> <<attr, "_", PricingKeys[k]>>]
    ELSE << <<attr, "_", "diff">> >>

EffectsDifference(attr, a_val, b_val) ==
    LET a_effects == get_effects_coding(a_val, attr)
        b_effects == get_effects_coding(b_val, attr)
        names == EffectsColumnNames(attr, a_effects)
    IN [c \in {names[k] : k \in 1..Len(names)} |->
            IF a_effects.isdict
            THEN a_effects.d[c[3]]
                 - (IF c[3] \in DOMAIN b_effects.d THEN b_effects.d[c[3]] ELSE 0)
            ELSE a_effects.val - b_effects.val]

(* 1 if choice == 'A' else 0 *)
CodeChoice(choice) == IF choice = "A" THEN 1 ELSE 0

ProperColumns ==
    {GradeCol} \cup {ChoiceCol(t) : t \in Tasks} \cup AttrCols(Tasks)

DifferenceRecord(row, r, task) ==
    LET diffs == [a \in AttrSet |->
                    EffectsDifference(a, row[AttrCol("A", a, task)], row[AttrCol("B", a, task)])]
    IN [respondent_id |-> r - 1,
        task |-> task,
        choice |-> CodeChoice(row[ChoiceCol(task)]),
        grade |-> row[GradeCol],
        x |-> [c \in UNION {DOMAIN diffs[a] : a \in DOMAIN diffs} |-> diffs[c[1]][c]]]

convert_to_proper_choice_format(table) ==
    [i \in 1..(Len(table) * NumTasks) |->
        DifferenceRecord(table[RowOfIndex(i)], RowOfIndex(i), TaskOfIndex(i))]

convert_to_choice_format_final(table) ==
    [i \in 1..(Len(table) * NumTasks) |->
        DifferenceRecord(table[RowOfIndex(i)], RowOfIndex(i), TaskOfIndex(i))]

----------------------------------------------------------------------------
NoDesign == [columns |-> <<>>, X |-> <<>>, y |-> <<>>]

NoLookup == [stage |-> "none", level |-> 0, column |-> <<>>, found |-> 0]

NoFit == [params |-> <<>>, predict |-> <<>>]

----------------------------------------------------------------------------
(* Rational arithmetic: a number is <<numerator, denominator>>, denominator > 0 *)

RECURSIVE GCD(_, _)
GCD(a, b) == IF b = 0 THEN a ELSE GCD(b, a % b)

(* n / d in lowest terms *)
Rat(n, d) ==
    LET g == GCD(IF n < 0 THEN -n ELSE n, d)
    IN IF g = 0 THEN <<0, 1>> ELSE <<n \div g, d \div g>>

RatAdd(a, b) == Rat(a[1] * b[2] + b[1] * a[2], a[2] * b[2])
RatMul(a, b) == Rat(a[1] * b[1], a[2] * b[2])
RatEq(a, b) == a[1] * b[2] = b[1] * a[2]
RatLt(a, b) == a[1] * b[2] < b[1] * a[2]
RatAbs(a) == Rat(IF a[1] < 0 THEN -a[1] ELSE a[1], a[2])
RatMax(a, b) == IF RatLt(a, b) THEN b ELSE a
RatMin(a, b) == IF RatLt(b, a) THEN b ELSE a

(* The sum of seq[lo..hi], by halves *)
RECURSIVE RatSumRange(_, _, _)
RatSumRange(seq, lo, hi) ==
    IF lo > hi THEN Rat(0, 1)
    ELSE IF lo = hi THEN seq[lo]
    ELSE RatAdd(RatSumRange(seq, lo, (lo + hi) \div 2),
                RatSumRange(seq, ((lo + hi) \div 2) + 1, hi))

RatSum(seq) == RatSumRange(seq, 1, Len(seq))

(* np.mean of a non-empty sequence *)
RatMean(seq) == RatMul(RatSum(seq), Rat(1, Len(seq)))

RECURSIVE SumSeq(_)
SumSeq(seq) == IF seq = <<>> THEN 0 ELSE Head(seq) + SumSeq(Tail(seq))

Abs(n) == IF n < 0 THEN -n ELSE n

----------------------------------------------------------------------------
(* The attribute-level tables.  A level code is a sequence of tokens, cut  *)
(* so that one code being a substring of another shows: female_tutor is    *)
(* "fe" followed by "male_tutor".                                          *)

Level(attribute, value, code) == [attribute |-> attribute, value |-> value, code |-> code]

LevelsWith(supportive, neutral, story) ==
    << Level("Tutor", FemaleTutor, <<"fe", "male_tutor">>),
       Level("Tutor", MaleTutor, <<"male_tutor">>),
       Level("Color_palette", FriendlyColors, <<"friendly_colors">>),
       Level("Color_palette", TechColors, <<"tech_colors">>),
       Level("Pricing", SchoolPays, <<"school_pays">>),
       Level("Pricing", Price499, <<"pricing_4.99">>),
       Level("Pricing", Price799, <<"pricing_7.99">>),
       Level("Pricing", Price999, <<"pricing_9.99">>),
       Level("Pricing", Price1299, <<"pricing_12.99">>),
       Level("Message_success_", GrowthMsg, <<"growth_message">>),
       Level("Message_success_", BrillianceMsg, <<"brilliance_message">>),
       Level("Message_failure_", supportive, <<"supportive_message">>),
       Level("Message_failure_", neutral, <<"neutral_message">>),
       Level("Storytelling", story, <<"space_rescue_story">>),
       Level("Storytelling", NoStory, <<"no_story">>),
       Level("Role_play", HeroAstronaut, <<"hero_astronaut">>),
       Level("Role_play", NoSpecificRole, <<"no_specific_role">>) >>

(* conditional_logit_analysis.py *)
get_all_attribute_levels == LevelsWith(SupportiveMsgCurly, NeutralMsgCurly, RescueStoryPlain)

LevelCodes(levels) == [i \in 1..Len(levels) |-> levels[i].code]

(* next((level for level in all_levels if level['code'] == code), None):   *)
(* the index of the first level with that code, 0 for None                 *)
FirstWithCode(levels, code) ==
    LET hits == {i \in 1..Len(levels) : levels[i].code = code}
    IN IF hits = {} THEN 0 ELSE CHOOSE i \in hits : \A j \in hits : i <= j

(* Assigning choice_data[code] for each level in turn: the last level of   *)
(* a code is the one whose column remains                                  *)
LastWithCode(levels, code) ==
    LET hits == {i \in 1..Len(levels) : levels[i].code = code}
    IN CHOOSE i \in hits : \A j \in hits : i >= j

(* code + '_diff' and feature.replace('_diff', '') *)
DiffName(code) == Append(code, "_diff")

StripDiff_KeepsSuffix(feature) == feature

StripDiff(feature) == SelectSeq(feature, LAMBDA tok : tok # "_diff")

get_significance(p_value) ==
    IF RatLt(p_value, Rat(1, 1000)) THEN "***"
    ELSE IF RatLt(p_value, Rat(1, 100)) THEN "**"
    ELSE IF RatLt(p_value, Rat(5, 100)) THEN "*"
    ELSE IF RatLt(p_value, Rat(1, 10)) THEN "(marginal)"
    ELSE "n.s."

----------------------------------------------------------------------------
(* The estimator.  The fitted numbers of a logistic regression are not     *)
(* computed here: a fit returns some coefficients (one per column) and     *)
(* some fitted probabilities (one per row) out of a small set.             *)

CoefPatterns == {<<0, 0>>, <<-3, 1>>, <<4, 0>>}

ProbPatterns == {<<Rat(1, 2), Rat(1, 2)>>, <<Rat(1, 2), Rat(1, 5)>>}

PValueChoices == {Rat(1, 2000), Rat(3, 100), Rat(1, 2)}

Fits(n, m) ==
    {[params |-> [j \in 1..n |-> Rat(cp[1] + cp[2] * j, 10)],
      predict |-> [i \in 1..m |-> pp[(i % 2) + 1]]] :
        cp \in CoefPatterns, pp \in ProbPatterns}


----------------------------------------------------------------------------
(* conditional_logit_analysis.py *)

ConditionalLogitColumns ==
    {GradeCol} \cup {ChoiceCol(t) : t \in Tasks} \cup AttrCols(Tasks)

(* One row per alternative of each choice set, A before B *)
convert_to_conditional_logit_format(table) ==
    [k \in 1..(Len(table) * NumTasks * 2) |->
        LET i == ((k - 1) \div 2) + 1
            alt == Alts[((k - 1) % 2) + 1]
            row == table[RowOfIndex(i)]
            task == TaskOfIndex(i)
        IN [choice_set_id |-> <<RowOfIndex(i) - 1, task>>,
            respondent_id |-> RowOfIndex(i) - 1,
            task |-> task,
            alternative |-> alt,
            chosen |-> IF row[ChoiceCol(task)] = alt THEN 1 ELSE 0,
            grade |-> row[GradeCol],
            attrs |-> [a \in AttrSet |-> row[AttrCol(alt, a, task)]]]]

(* choice_data[code] = (choice_data[attr] == value).astype(int) *)
create_dummy_variables(data, levels) ==
    [k \in 1..Len(data) |->
        [rec |-> data[k],
         d |-> [code \in {levels[i].code : i \in 1..Len(levels)} |->
                   LET level == levels[LastWithCode(levels, code)]
                   IN IF data[k].attrs[level.attribute] = level.value THEN 1 ELSE 0]]]

(* Series.var() > 1e-10: the sample variance of a 0/1 column is positive   *)
(* exactly when two of its values differ                                   *)
HasVariance(column) ==
    \E i \in 1..Len(column) : column[i] # column[1]

(* The unique choice_set_id values in order of first appearance *)
ChoiceSetIds(data) ==
    LET isFirst(k) == \A j \in 1..(k - 1) : data[j].rec.choice_set_id # data[k].rec.choice_set_id
        firsts == SelectSeq([k \in 1..Len(data) |-> k], isFirst)
    IN [n \in 1..Len(firsts) |-> data[firsts[n]].rec.choice_set_id]

(* set_data[set_data['alternative'] == alt].iloc[0] *)
FirstAlternative(data, id, alt) ==
    LET hits == {k \in 1..Len(data) :
                    data[k].rec.choice_set_id = id /\ data[k].rec.alternative = alt}
    IN data[CHOOSE k \in hits : \A j \in hits : k <= j]

(* The A - B difference record of every choice set over feature_cols *)
DifferenceData(data, feature_cols) ==
    LET ids == ChoiceSetIds(data)
        names == {DiffName(feature_cols[f]) : f \in 1..Len(feature_cols)}
    IN [n \in 1..Len(ids) |->
            LET alt_a == FirstAlternative(data, ids[n], "A")
                alt_b == FirstAlternative(data, ids[n], "B")
            IN [choice_set_id |-> ids[n],
                respondent_id |-> alt_a.rec.respondent_id,
                task |-> alt_a.rec.task,
                chosen_a |-> alt_a.rec.chosen,
                grade |-> alt_a.rec.grade,
                x |-> [c \in names |-> alt_a.d[StripDiff(c)] - alt_b.d[StripDiff(c)]]]]

(* abs(X[feature].sum()) > 1e-10 *)
SumsToNonZero(rows, feature) ==
    Abs(SumSeq([n \in 1..Len(rows) |-> rows[n].x[feature]])) > 0

(* The estimator's input: the named columns of the records, and y *)
DesignOf(rows, columns, y) ==
    [columns |-> columns,
     X |-> [n \in 1..Len(rows) |->
              [c \in {columns[j] : j \in 1..Len(columns)} |-> rows[n].x[c]]],
     y |-> y]

(* mean(p * (1 - p)) * coef * 100 for every column *)
calculate_ame_alternative(result, feature_cols) ==
    LET derivative == [i \in 1..Len(result.predict) |->
                          RatMul(result.predict[i], RatAdd(Rat(1, 1), RatMul(Rat(-1, 1), result.predict[i])))]
    IN [i \in 1..Len(feature_cols) |->
            RatMul(RatMul(RatMean(derivative), result.params[i]), Rat(100, 1))]

Estimate(level, code, coefficient, p_value, pp_effect, significance) ==
    [attribute |-> level.attribute, level |-> level.value, level_code |-> code,
     coefficient |-> coefficient, p_value |-> p_value, pp_effect |-> pp_effect,
     significance |-> significance]

Placeholder(level, code) ==
    Estimate(level, code, Rat(0, 1), Rat(1, 1), Rat(0, 1), "excluded (collinear)")

(* The rows of the result table for the fitted columns: one per column     *)
(* whose stripped name is the code of a level                              *)
EstimatedRows(levels, features, result, pvalues, pp_effects) ==
    LET known == SelectSeq([i \in 1..Len(features) |-> i],
                           LAMBDA i : FirstWithCode(levels, StripDiff(features[i])) # 0)
    IN [n \in 1..Len(known) |->
            LET i == known[n]
                code == StripDiff(features[i])
            IN Estimate(levels[FirstWithCode(levels, code)], code, result.params[i],
                        pvalues[i], pp_effects[i], get_significance(pvalues[i]))]

PlaceholderRows(levels, excluded) ==
    LET known == SelectSeq(excluded, LAMBDA code : FirstWithCode(levels, code) # 0)
    IN [n \in 1..Len(known) |->
            Placeholder(levels[FirstWithCode(levels, known[n])], known[n])]

(* run_conditional_logit_model: the dummies with variation are features *)
CLFeatureCols(data) ==
    SelectSeq(LevelCodes(get_all_attribute_levels),
              LAMBDA code : HasVariance([k \in 1..Len(data) |-> data[k].d[code]]))

CLCollinearFeatures(data) ==
    SelectSeq(LevelCodes(get_all_attribute_levels),
              LAMBDA code : ~HasVariance([k \in 1..Len(data) |-> data[k].d[code]]))

(* run_alternative_conditional_logit up to the fit *)
CLDiffFeatures(feature_cols) == [f \in 1..Len(feature_cols) |-> DiffName(feature_cols[f])]

CLFinalFeatures(diff_data, feature_cols) ==
    SelectSeq(CLDiffFeatures(feature_cols), LAMBDA c : SumsToNonZero(diff_data, c))

CLCollinearDiffFeatures(diff_data, feature_cols) ==
    SelectSeq(CLDiffFeatures(feature_cols), LAMBDA c : ~SumsToNonZero(diff_data, c))

(* run_alternative_conditional_logit after the fit: the result table *)
CLResults(result, pvalues, final_features, collinear_features, collinear_diff_features) ==
    EstimatedRows(get_all_attribute_levels, final_features, result, pvalues,
                  calculate_ame_alternative(result, final_features))
    \o PlaceholderRows(get_all_attribute_levels,
                       collinear_features
                       \o [f \in 1..Len(collinear_diff_features) |->
                              StripDiff(collinear_diff_features[f])])


(* Running a builder: row[...] on a column the table lacks raises KeyError *)

HasColumns(table, needed) == \A r \in 1..Len(table) : needed \subseteq DOMAIN table[r]

Build(name, needed, records) ==
    /\ pc = "loaded"
    /\ script' = name
    /\ IF HasColumns(df, needed)
       THEN /\ choice_data' = records
            /\ pc' = "converted"
            /\ error' = "none"
       ELSE /\ choice_data' = <<>>
            /\ pc' = "aborted"
            /\ error' = "KeyError"
    /\ UNCHANGED <<files, utilities, importance, completed, df, lookup, rating_data, design, fit, results, caught>>

RunDescriptiveBuilder ==
    Build("simple_descriptive_conjoint", DescriptiveColumns, convert_to_choice_format(df))

RunProperBuilder ==
    Build("proper_conjoint_analysis", ProperColumns, convert_to_proper_choice_format(df))

RunFinalBuilder ==
    Build("final_robust_conjoint_analysis", ProperColumns, convert_to_choice_format_final(df))

----------------------------------------------------------------------------
(* Specification of the builders over tables whose choice fields vary *)

ChoiceLiterals == {"A", "B", NaN}

ChoiceCells == {Cell(c, ProfileHigh("curly"), ProfileLow("curly"), "4", "3") : c \in ChoiceLiterals}

InitCommon ==
    /\ pc = "loaded"
    /\ script = "none"
    /\ choice_data = <<>>
    /\ error = "none"
    /\ design = NoDesign
    /\ fit = NoFit
    /\ results = <<>>
    /\ caught = <<>>
    /\ lookup = NoLookup
    /\ rating_data = <<>>
    /\ utilities = <<>>
    /\ importance = <<>>
    /\ completed = <<>>
    /\ files = {}

InitBuild ==
    /\ df \in Tables(ChoiceCells, AllColumns(Tasks))
    /\ InitCommon

NextBuild ==
    \/ RunDescriptiveBuilder
    \/ RunProperBuilder
    \/ RunFinalBuilder

SpecBuild == InitBuild /\ [][NextBuild]_vars

----------------------------------------------------------------------------
(* Running conditional_logit_analysis.py *)

LogitFits(n, m) ==
    {[params |-> f.params, predict |-> f.predict, pvalues |-> [j \in 1..n |-> p]] :
        f \in Fits(n, m), p \in PValueChoices}

(* model.fit() of statsmodels hands back its estimates whether or not the  *)
(* optimizer converged: the outcome is recorded in mle_retvals and, with   *)
(* warnings filtered, nowhere else                                         *)
MLEFits(n, m, model) ==
    {[params |-> f.params, predict |-> f.predict, pvalues |-> f.pvalues,
      converged |-> c, model |-> model] : f \in LogitFits(n, m), c \in BOOLEAN}

RunConditionalLogitBuilder ==
    Build("conditional_logit_analysis", ConditionalLogitColumns,
          convert_to_conditional_logit_format(df))

(* run_conditional_logit_model, which ends in run_alternative_conditional_logit. *)
(* sm.Logit(...).fit() returns a result or raises (singular Hessian,       *)
(* perfect separation, an empty design).                                   *)
RunConditionalLogitModel ==
    /\ pc = "converted"
    /\ script = "conditional_logit_analysis"
    /\ \E data \in {create_dummy_variables(choice_data, get_all_attribute_levels)} :
       \E feature_cols \in {CLFeatureCols(data)} :
       \E collinear_features \in {CLCollinearFeatures(data)} :
       \E diff_data \in {DifferenceData(data, feature_cols)} :
       \E final_features \in {CLFinalFeatures(diff_data, feature_cols)} :
       \E collinear_diff_features \in {CLCollinearDiffFeatures(diff_data, feature_cols)} :
          /\ choice_data' = data
          /\ design' = DesignOf(diff_data, final_features,
                                [n \in 1..Len(diff_data) |-> diff_data[n].chosen_a])
          /\ \E result \in MLEFits(Len(final_features), Len(diff_data), "Logit") \cup {NoFit} :
                IF result = NoFit \/ final_features = <<>>
                THEN /\ fit' = NoFit
                     /\ results' = <<>>
                     /\ error' = IF final_features = <<>> THEN "ValueError" ELSE "LinAlgError"
                     /\ pc' = "aborted"
                ELSE /\ fit' = result
                     /\ results' = CLResults(result, result.pvalues, final_features,
                                             collinear_features, collinear_diff_features)
                     /\ error' = "none"
                     /\ pc' = "analyzed"
    /\ UNCHANGED <<files, utilities, importance, completed, df, lookup, rating_data, script, caught>>

----------------------------------------------------------------------------
(* improved_conditional_logit.py *)

(* get_level_info's level_mapping, in the order of its keys *)
level_mapping == LevelsWith(SupportiveMsgPlain, NeutralMsgPlain, RescueStoryPlain)

(* The test create_attribute_dummies applies for a level: equality for the *)
(* tutor levels, a substring test for all others                           *)
DummyNeedle(code) ==
    CASE code = <<"friendly_colors">> -> "Friendly & warm"
      [] code = <<"tech_colors">> -> "Tech & bold"
      [] code = <<"school_pays">> -> "School pays"
      [] code = <<"pricing_4.99">> -> "$4.99"
      [] code = <<"pricing_7.99">> -> "$7.99"
      [] code = <<"pricing_9.99">> -> "$9.99"
      [] code = <<"pricing_12.99">> -> "$12.99"
      [] code = <<"growth_message">> -> "effort and persistence"
      [] code = <<"brilliance_message">> -> "special talent"
      [] code = <<"supportive_message">> -> "mistakes are how scientists learn"
      [] code = <<"neutral_message">> -> "Here is what went wrong"
      [] code = <<"space_rescue_story">> -> "Space rescue story"
      [] code = <<"no_story">> -> "No story"
      [] code = <<"hero_astronaut">> -> "Hero astronaut"
      [] code = <<"no_specific_role">> -> "No specific role"

HasLevel(level, val) ==
    IF level.attribute = "Tutor" THEN val = level.value
    ELSE Contains(DummyNeedle(level.code), val)

create_attribute_dummies(attr, a_val, b_val) ==
    LET own == {i \in 1..Len(level_mapping) : level_mapping[i].attribute = attr}
    IN [c \in {DiffName(level_mapping[i].code) : i \in own} |->
            LET level == level_mapping[FirstWithCode(level_mapping, StripDiff(c))]
            IN (IF HasLevel(level, a_val) THEN 1 ELSE 0)
               - (IF HasLevel(level, b_val) THEN 1 ELSE 0)]

improved_convert_to_choice_format(table) ==
    [i \in 1..(Len(table) * NumTasks) |->
        LET row == table[RowOfIndex(i)]
            task == TaskOfIndex(i)
            dummies == [a \in AttrSet |->
                          create_attribute_dummies(a, row[AttrCol("A", a, task)],
                                                   row[AttrCol("B", a, task)])]
        IN [respondent_id |-> RowOfIndex(i) - 1,
            task |-> task,
            choice_set_id |-> <<RowOfIndex(i) - 1, task>>,
            chosen_a |-> CodeChoice(row[ChoiceCol(task)]),
            grade |-> row[GradeCol],
            x |-> [c \in UNION {DOMAIN dummies[a] : a \in AttrSet} |->
                      dummies[level_mapping[FirstWithCode(level_mapping, StripDiff(c))].attribute][c]]]]

(* 'Friendly & warm' in a_val raises TypeError when a_val is a float NaN *)
SubstringTestOnNaN(table) ==
    \E r \in 1..Len(table), t \in Tasks, a \in AttrSet \ {"Tutor"}, i \in 1..2 :
        table[r][AttrCol(Alts[i], a, t)] = NaN

(* The columns of the records that end with '_diff', in column order *)
ImprovedDiffFeatures == [i \in 1..Len(level_mapping) |-> DiffName(level_mapping[i].code)]

ImprovedFinalFeatures(data) ==
    SelectSeq(ImprovedDiffFeatures, LAMBDA c : SumsToNonZero(data, c))

ImprovedCollinearFeatures(data) ==
    SelectSeq(ImprovedDiffFeatures, LAMBDA c : ~SumsToNonZero(data, c))

(* get_level_info(code): level_mapping.get(code) *)
get_level_info(level_code) == FirstWithCode(level_mapping, level_code)

ImprovedResults(result, final_features, collinear_features) ==
    EstimatedRows(level_mapping, final_features, result, result.pvalues,
                  calculate_ame_alternative(result, final_features))
    \o PlaceholderRows(level_mapping,
                       [f \in 1..Len(collinear_features) |-> StripDiff(collinear_features[f])])

RunImprovedBuilder ==
    /\ pc = "loaded"
    /\ script' = "improved_conditional_logit"
    /\ IF ~HasColumns(df, ConditionalLogitColumns)
       THEN choice_data' = <<>> /\ pc' = "aborted" /\ error' = "KeyError"
       ELSE IF SubstringTestOnNaN(df)
       THEN choice_data' = <<>> /\ pc' = "aborted" /\ error' = "TypeError"
       ELSE /\ choice_data' = improved_convert_to_choice_format(df)
            /\ pc' = "converted"
            /\ error' = "none"
    /\ UNCHANGED <<files, utilities, importance, completed, df, lookup, rating_data, design, fit, results, caught>>

(* run_conditional_logit_model of improved_conditional_logit.py *)
RunImprovedModel ==
    /\ pc = "converted"
    /\ script = "improved_conditional_logit"
    /\ \E final_features \in {ImprovedFinalFeatures(choice_data)} :
       \E collinear_features \in {ImprovedCollinearFeatures(choice_data)} :
          /\ design' = DesignOf(choice_data, final_features,
                                [n \in 1..Len(choice_data) |-> choice_data[n].chosen_a])
          /\ \E result \in MLEFits(Len(final_features), Len(choice_data), "Logit") \cup {NoFit} :
                IF result = NoFit \/ final_features = <<>>
                THEN /\ fit' = NoFit
                     /\ results' = <<>>
                     /\ error' = IF final_features = <<>> THEN "ValueError" ELSE "LinAlgError"
                     /\ pc' = "aborted"
                ELSE /\ fit' = result
                     /\ results' = ImprovedResults(result, final_features, collinear_features)
                     /\ error' = "none"
                     /\ pc' = "analyzed"
    /\ UNCHANGED <<files, utilities, importance, completed, df, lookup, rating_data, script, choice_data, caught>>

----------------------------------------------------------------------------
(* The scripts that fit sklearn's LogisticRegression *)

(* LogisticRegression.fit raises ValueError when X has no column or y      *)
(* holds a single class                                                    *)
SklearnRejects(columns, y) ==
    \/ columns = <<>>
    \/ \A i \in 1..Len(y) : y[i] = y[1]

(* 2 * (1 - norm.cdf(|z|)) by significance tier: the value returned stands *)
(* for its tier, the tiers' limits are the normal quantiles squared        *)
TwoSidedNormalP(z2) ==
    IF RatLt(Rat(108276, 10000), z2) THEN Rat(1, 2000)
    ELSE IF RatLt(Rat(66349, 10000), z2) THEN Rat(1, 200)
    ELSE IF RatLt(Rat(38415, 10000), z2) THEN Rat(3, 100)
    ELSE IF RatLt(Rat(27055, 10000), z2) THEN Rat(7, 100)
    ELSE Rat(3, 5)

(* coef * 25 for every column *)
calculate_pp_effects_final(coefficients) ==
    [i \in 1..Len(coefficients) |-> RatMul(coefficients[i], Rat(25, 1))]

(* The rows of proper_conjoint_analysis.py and final_robust_conjoint_analysis.py *)
FeatureRows(feature_cols, coefficients, p_values, pp_effects) ==
    [i \in 1..Len(feature_cols) |->
        [feature |-> feature_cols[i], coefficient |-> coefficients[i],
         p_value |-> p_values[i], pp_effect |-> pp_effects[i],
         significance |-> get_significance(p_values[i])]]

(* The record columns that end with _diff, _free, _4.99, ... in column order *)
ProperFeatureCols ==
    Flatten([i \in 1..Len(Attrs) |->
                EffectsColumnNames(Attrs[i], get_effects_coding(NaN, Attrs[i]))])

(* calculate_proper_p_values: np.linalg.inv either raises LinAlgError, and *)
(* every p-value is 0.5, or gives standard errors and Wald p-values        *)
SE2Choices == {Rat(1, 100), Rat(1, 4)}

Inversions == {[ok |-> TRUE, se2 |-> v] : v \in SE2Choices} \cup {[ok |-> FALSE, se2 |-> Rat(1, 1)]}

calculate_proper_p_values(coefficients, inversion) ==
    IF inversion.ok
    THEN [i \in 1..Len(coefficients) |->
            TwoSidedNormalP(RatMul(RatMul(coefficients[i], coefficients[i]),
                                   Rat(inversion.se2[2], inversion.se2[1])))]
    ELSE [i \in 1..Len(coefficients) |-> Rat(1, 2)]

(* calculate_bootstrap_p_values: every draw refits on a resample; a refit  *)
(* that raises is replaced by the original coefficients                    *)
BootPatterns == {<<-3, 1>>, <<4, 0>>}

BootDraws ==
    [1..NBootstrap -> {[ok |-> TRUE, cp |-> cp] : cp \in BootPatterns}
                      \cup {[ok |-> FALSE, cp |-> <<0, 0>>]}]

BootstrapCoefs(original_coefs, draws) ==
    [b \in 1..Len(draws) |->
        IF draws[b].ok
        THEN [j \in 1..Len(original_coefs) |-> Rat(draws[b].cp[1] + draws[b].cp[2] * j, 10)]
        ELSE original_coefs]

(* np.mean(dist >= c) and np.mean(dist <= c) *)
FractionAtLeast(dist, c) ==
    Rat(Cardinality({b \in 1..Len(dist) : ~RatLt(dist[b], c)}), Len(dist))

FractionAtMost(dist, c) ==
    Rat(Cardinality({b \in 1..Len(dist) : ~RatLt(c, dist[b])}), Len(dist))

calculate_bootstrap_p_values(original_coefs, draws) ==
    LET bootstrap_coefs == BootstrapCoefs(original_coefs, draws)
    IN [i \in 1..Len(original_coefs) |->
            LET coef_dist == [b \in 1..Len(draws) |-> bootstrap_coefs[b][i]]
                p_value == RatMul(Rat(2, 1),
                                  RatMin(FractionAtLeast(coef_dist, RatAbs(original_coefs[i])),
                                         FractionAtMost(coef_dist,
                                                        RatMul(Rat(-1, 1), RatAbs(original_coefs[i])))))
            IN RatMax(p_value, Rat(1, 1000000))]

(* The fit together with bootstrap_coefs, the coefficients of the refits *)
WithBootstrap(result, draws) ==
    [params |-> result.params, predict |-> result.predict,
     bootstrap |-> BootstrapCoefs(result.params, draws)]

CaughtIn(draws) ==
    SelectSeq([b \in 1..Len(draws) |-> IF draws[b].ok THEN "none" ELSE "Exception"],
              LAMBDA e : e # "none")

(* run_logistic_regression_analysis of proper_conjoint_analysis.py *)
RunProperAnalysis ==
    /\ pc = "converted"
    /\ script = "proper_conjoint_analysis"
    /\ \E y \in {[n \in 1..Len(choice_data) |-> choice_data[n].choice]} :
          /\ design' = DesignOf(choice_data, ProperFeatureCols, y)
          /\ IF SklearnRejects(ProperFeatureCols, y)
             THEN /\ fit' = NoFit /\ results' = <<>> /\ caught' = caught
                  /\ error' = "ValueError" /\ pc' = "aborted"
             ELSE \E result \in Fits(Len(ProperFeatureCols), Len(choice_data)),
                     inversion \in Inversions :
                    /\ fit' = result
                    /\ caught' = IF inversion.ok THEN caught ELSE Append(caught, "LinAlgError")
                    /\ results' = FeatureRows(ProperFeatureCols, result.params,
                                              calculate_proper_p_values(result.params, inversion),
                                              calculate_pp_effects_final(result.params))
                    /\ error' = "none"
                    /\ pc' = "analyzed"
    /\ UNCHANGED <<files, utilities, importance, completed, df, lookup, rating_data, script, choice_data>>

(* run_robust_analysis of final_robust_conjoint_analysis.py *)
RunRobustAnalysis ==
    /\ pc = "converted"
    /\ script = "final_robust_conjoint_analysis"
    /\ \E y \in {[n \in 1..Len(choice_data) |-> choice_data[n].choice]} :
          /\ design' = DesignOf(choice_data, ProperFeatureCols, y)
          /\ IF SklearnRejects(ProperFeatureCols, y)
             THEN /\ fit' = NoFit /\ results' = <<>> /\ caught' = caught
                  /\ error' = "ValueError" /\ pc' = "aborted"
             ELSE \E result \in Fits(Len(ProperFeatureCols), Len(choice_data)),
                     draws \in BootDraws :
                    /\ fit' = WithBootstrap(result, draws)
                    /\ caught' = caught \o CaughtIn(draws)
                    /\ results' = FeatureRows(ProperFeatureCols, result.params,
                                              calculate_bootstrap_p_values(result.params, draws),
                                              calculate_pp_effects_final(result.params))
                    /\ error' = "none"
                    /\ pc' = "analyzed"
    /\ UNCHANGED <<files, utilities, importance, completed, df, lookup, rating_data, script, choice_data>>

----------------------------------------------------------------------------
(* granular_conjoint_analysis.py and corrected_granular_conjoint_analysis.py *)

granular_get_all_attribute_levels ==
    LevelsWith(SupportiveMsgCurly, NeutralMsgCurly, RescueStoryCurly)

corrected_get_all_attribute_levels ==
    LevelsWith(SupportiveMsgPlain, NeutralMsgPlain, RescueStoryPlain)

GranularColumns ==
    {GradeCol} \cup {ChoiceCol(t) : t \in Tasks} \cup {LearningCol(t) : t \in Tasks}
    \cup {EnjoymentCol(t) : t \in Tasks} \cup AttrCols(Tasks)

(* record[f'A_{code}'] = 1 if a_val == level['value'] else 0, for the      *)
(* levels of the attribute; a later level of the same code overwrites      *)
LevelDummies(row, alt, task, levels) ==
    [code \in {levels[i].code : i \in 1..Len(levels)} |->
        LET level == levels[LastWithCode(levels, code)]
        IN IF row[AttrCol(alt, level.attribute, task)] = level.value THEN 1 ELSE 0]

convert_to_granular_choice_format(table, levels) ==
    [i \in 1..(Len(table) * NumTasks) |->
        LET row == table[RowOfIndex(i)]
            task == TaskOfIndex(i)
        IN [respondent_id |-> RowOfIndex(i) - 1,
            task |-> task,
            choice |-> CodeChoice(row[ChoiceCol(task)]),
            grade |-> row[GradeCol],
            perceived_learning |-> row[LearningCol(task)],
            expected_enjoyment |-> row[EnjoymentCol(task)],
            A |-> LevelDummies(row, "A", task, levels),
            B |-> LevelDummies(row, "B", task, levels)]]

(* choice_data[f'{code}_diff'] = choice_data[f'A_{code}'] - choice_data[f'B_{code}'] *)
WithDifferences(data, levels) ==
    [n \in 1..Len(data) |->
        [rec |-> data[n],
         x |-> [c \in {DiffName(levels[i].code) : i \in 1..Len(levels)} |->
                   data[n].A[StripDiff(c)] - data[n].B[StripDiff(c)]]]]

AllDiffFeatures(levels) == [i \in 1..Len(levels) |-> DiffName(levels[i].code)]

(* abs(sum) < 1e-10 marks a column collinear *)
GranularFeatureCols(data) ==
    SelectSeq(AllDiffFeatures(granular_get_all_attribute_levels),
              LAMBDA c : ~(Abs(SumSeq([n \in 1..Len(data) |-> data[n].x[c]])) < 1))

GranularCollinearFeatures(data) ==
    SelectSeq(AllDiffFeatures(granular_get_all_attribute_levels),
              LAMBDA c : Abs(SumSeq([n \in 1..Len(data) |-> data[n].x[c]])) < 1)

(* calculate_wald_p_values: z = coef / sqrt(4 / n), clipped to [1e-6, 1] *)
calculate_wald_p_values(coefficients, n) ==
    [i \in 1..Len(coefficients) |->
        RatMin(RatMax(TwoSidedNormalP(RatMul(RatMul(coefficients[i], coefficients[i]), Rat(n, 4))),
                      Rat(1, 1000000)),
               Rat(1, 1))]

RunGranularBuilder ==
    Build("granular_conjoint_analysis", GranularColumns,
          convert_to_granular_choice_format(df, granular_get_all_attribute_levels))

RunGranularAnalysis ==
    /\ pc = "converted"
    /\ script = "granular_conjoint_analysis"
    /\ \E data \in {WithDifferences(choice_data, granular_get_all_attribute_levels)} :
       \E feature_cols \in {GranularFeatureCols(data)} :
       \E collinear_features \in {GranularCollinearFeatures(data)} :
       \E y \in {[n \in 1..Len(data) |-> data[n].rec.choice]} :
          /\ choice_data' = data
          /\ design' = DesignOf(data, feature_cols, y)
          /\ IF SklearnRejects(feature_cols, y)
             THEN /\ fit' = NoFit /\ results' = <<>>
                  /\ error' = "ValueError" /\ pc' = "aborted"
             ELSE \E result \in Fits(Len(feature_cols), Len(data)) :
                    /\ fit' = result
                    /\ results' =
                         EstimatedRows(granular_get_all_attribute_levels, feature_cols, result,
                                       calculate_wald_p_values(result.params, Len(data)),
                                       calculate_ame_alternative(result, feature_cols))
                         \o PlaceholderRows(granular_get_all_attribute_levels,
                                            [f \in 1..Len(collinear_features) |->
                                                StripDiff(collinear_features[f])])
                    /\ error' = "none"
                    /\ pc' = "analyzed"
    /\ UNCHANGED <<files, utilities, importance, completed, df, lookup, rating_data, script, caught>>

(* ref in col, for strings given as token sequences *)
IsSubstring(ref, col) ==
    \E k \in 0..(Len(col) - Len(ref)) : \A j \in 1..Len(ref) : col[k + j] = ref[j]

reference_categories ==
    << <<"pricing_7.99">>, <<"male_tutor">>, <<"tech_colors">>, <<"brilliance_message">>,
       <<"neutral_message">>, <<"space_rescue_story">>, <<"no_specific_role">> >>

(* [col for col in feature_cols if not any(ref in col for ref in reference_categories)] *)
feature_cols_corrected ==
    SelectSeq(AllDiffFeatures(corrected_get_all_attribute_levels),
              LAMBDA col : ~\E r \in 1..Len(reference_categories) :
                               IsSubstring(reference_categories[r], col))

RunCorrectedBuilder ==
    Build("corrected_granular_conjoint_analysis", GranularColumns,
          convert_to_granular_choice_format(df, corrected_get_all_attribute_levels))

RunCorrectedAnalysis ==
    /\ pc = "converted"
    /\ script = "corrected_granular_conjoint_analysis"
    /\ \E data \in {WithDifferences(choice_data, corrected_get_all_attribute_levels)} :
       \E y \in {[n \in 1..Len(data) |-> data[n].rec.choice]} :
          /\ choice_data' = data
          /\ design' = DesignOf(data, feature_cols_corrected, y)
          /\ IF SklearnRejects(feature_cols_corrected, y)
             THEN /\ fit' = NoFit /\ results' = <<>> /\ caught' = caught
                  /\ error' = "ValueError" /\ pc' = "aborted"
             ELSE \E result \in Fits(Len(feature_cols_corrected), Len(data)),
                     draws \in BootDraws :
                    /\ fit' = WithBootstrap(result, draws)
                    /\ caught' = caught \o CaughtIn(draws)
                    /\ results' =
                         EstimatedRows(corrected_get_all_attribute_levels,
                                       feature_cols_corrected, result,
                                       calculate_bootstrap_p_values(result.params, draws),
                                       calculate_pp_effects_final(result.params))
                    /\ error' = "none"
                    /\ pc' = "analyzed"
    /\ UNCHANGED <<files, utilities, importance, completed, df, lookup, rating_data, script>>

----------------------------------------------------------------------------
(* corrected_attribute_analysis.py *)

(* sorted(list(values)): the values of an attribute in the order of        *)
(* Python's string comparison                                              *)
SortedValues(attr) ==
    CASE attr = "Tutor" -> <<FemaleTutor, MaleTutor>>
      [] attr = "Color_palette" -> <<FriendlyColors, TechColors>>
      [] attr = "Pricing" -> <<Price1299, Price499, Price799, Price999, SchoolPays>>
      [] attr = "Message_success_" -> <<GrowthMsg, BrillianceMsg>>
      [] attr = "Message_failure_" -> <<SupportiveMsgPlain, SupportiveMsgCurly,
                                        NeutralMsgPlain, NeutralMsgCurly>>
      [] attr = "Storytelling" -> <<NoStory, RescueStoryPlain, RescueStoryCurly>>
      [] attr = "Role_play" -> <<HeroAstronaut, NoSpecificRole>>

(* extract_unique_values: the values found in the columns the table has *)
extract_unique_values(table, attr) ==
    SelectSeq(SortedValues(attr),
              LAMBDA v : \E r \in 1..Len(table), t \in Tasks, a \in {"A", "B"} :
                            /\ AttrCol(a, attr, t) \in DOMAIN table[r]
                            /\ table[r][AttrCol(a, attr, t)] = v)

convert_to_choice_format_corrected(table) ==
    [i \in 1..(Len(table) * NumTasks) |->
        LET row == table[RowOfIndex(i)]
            task == TaskOfIndex(i)
        IN [respondent_id |-> RowOfIndex(i) - 1,
            task |-> task,
            choice |-> CodeChoice(row[ChoiceCol(task)]),
            grade |-> row[GradeCol],
            A |-> [attr \in AttrSet |-> row[AttrCol("A", attr, task)]],
            B |-> [attr \in AttrSet |-> row[AttrCol("B", attr, task)]]]]

(* The attribute levels in the order analyze_attributes_corrected visits them *)
AnalyzedLevels(table) ==
    Flatten([a \in 1..Len(Attrs) |->
                LET levels == extract_unique_values(table, Attrs[a])
                IN [k \in 1..Len(levels) |-> [attribute |-> Attrs[a], value |-> levels[k]]]])

(* What the two tests return for the levels, in that order: a p-value for  *)
(* each.  chi2_contingency raises when an expected frequency is zero, that *)
(* is when all choices of the data are the same; ttest_ind returns nan then *)
TestPatterns ==
    {[i \in 1..20 |-> Rat(3, 100)],
     [i \in 1..20 |-> IF i % 2 = 1 THEN Rat(1, 2000) ELSE Rat(1, 2)],
     [i \in 1..20 |-> IF i % 2 = 1 THEN Rat(1, 2) ELSE Rat(3, 100)]}

StatTests == {[chi2 |-> c, ttest |-> t] : c \in TestPatterns, t \in TestPatterns}

SingleClass(data) == Cardinality({data[n].choice : n \in 1..Len(data)}) < 2

(* analyze_single_attribute_corrected for one level; n is the position of  *)
(* the level among the analysed levels                                     *)
analyze_single_attribute_corrected(data, lv, n, tests) ==
    LET a_data == SelectSeq(data, LAMBDA rec : rec.A[lv.attribute] = lv.value)
        b_data == SelectSeq(data, LAMBDA rec : rec.B[lv.attribute] = lv.value)
        a_chosen == SumSeq([k \in 1..Len(a_data) |-> a_data[k].choice])
        b_chosen == SumSeq([k \in 1..Len(b_data) |-> 1 - b_data[k].choice])
        a_choice_share == IF Len(a_data) > 0 THEN Rat(a_chosen, Len(a_data)) ELSE Rat(1, 2)
        b_choice_share == IF Len(b_data) > 0 THEN Rat(b_chosen, Len(b_data)) ELSE Rat(1, 2)
        total_observations == Len(a_data) + Len(b_data)
        overall_choice_share ==
            IF total_observations > 0 THEN Rat(a_chosen + b_chosen, total_observations)
            ELSE Rat(1, 2)
        level_present == SelectSeq(data, LAMBDA rec : rec.A[lv.attribute] = lv.value
                                                      \/ rec.B[lv.attribute] = lv.value)
        level_absent == SelectSeq(data, LAMBDA rec : rec.A[lv.attribute] # lv.value
                                                     /\ rec.B[lv.attribute] # lv.value)
        tested == Len(level_present) > 0 /\ Len(level_absent) > 0
        p_chi2 == IF tested /\ ~SingleClass(data) THEN tests.chi2[n] ELSE Rat(1, 1)
        p_value == IF tested /\ ~SingleClass(data) THEN RatMin(p_chi2, tests.ttest[n])
                   ELSE p_chi2
    IN [attribute |-> lv.attribute,
        level |-> lv.value,
        choice_share |-> overall_choice_share,
        effect_pp |-> RatMul(RatAdd(overall_choice_share, Rat(-1, 2)), Rat(100, 1)),
        p_value |-> p_value,
        n_observations |-> total_observations,
        a_choice_share |-> a_choice_share,
        b_choice_share |-> b_choice_share,
        present_n |-> Len(level_present),
        absent_n |-> Len(level_absent)]

RunAttributeBuilder ==
    Build("corrected_attribute_analysis", ConditionalLogitColumns,
          convert_to_choice_format_corrected(df))

(* analyze_attributes_corrected *)
RunAttributeAnalysis ==
    /\ pc = "converted"
    /\ script = "corrected_attribute_analysis"
    /\ \E levels \in {AnalyzedLevels(df)} :
       \E tests \in StatTests :
          /\ fit' = tests
          /\ results' = [n \in 1..Len(levels) |->
                            analyze_single_attribute_corrected(choice_data, levels[n], n, tests)]
          /\ caught' = IF SingleClass(choice_data)
                          /\ \E n \in 1..Len(levels) :
                                LET row == analyze_single_attribute_corrected(
                                               choice_data, levels[n], n, tests)
                                IN row.present_n > 0 /\ row.absent_n > 0
                       THEN Append(caught, "ValueError") ELSE caught
    /\ pc' = "analyzed"
    /\ error' = "none"
    /\ UNCHANGED <<files, utilities, importance, completed, df, lookup, rating_data, script, choice_data, design>>

----------------------------------------------------------------------------
(* comprehensive_attribute_analysis.py *)

(* convert_to_choice_format: chose_{attr}_A repeats the choice for every   *)
(* attribute                                                               *)
comprehensive_convert_to_choice_format(table) ==
    [i \in 1..(Len(table) * NumTasks) |->
        LET row == table[RowOfIndex(i)]
            task == TaskOfIndex(i)
        IN [respondent_id |-> RowOfIndex(i) - 1,
            task |-> task,
            choice |-> CodeChoice(row[ChoiceCol(task)]),
            grade |-> row[GradeCol],
            A |-> [attr \in AttrSet |-> row[AttrCol("A", attr, task)]],
            B |-> [attr \in AttrSet |-> row[AttrCol("B", attr, task)]],
            chose_A |-> [attr \in AttrSet |-> CodeChoice(row[ChoiceCol(task)])]]]

RECURSIVE BinomialCoefficient(_, _)
BinomialCoefficient(n, k) ==
    IF k = 0 THEN 1 ELSE (BinomialCoefficient(n, k - 1) * (n - k + 1)) \div k

(* binomtest(k, n, 0.5).pvalue, two-sided: the outcomes no more probable   *)
(* than k                                                                  *)
BinomTestP(k, n) ==
    Rat(SumSeq([j \in 1..(n + 1) |->
                  IF BinomialCoefficient(n, j - 1) <= BinomialCoefficient(n, k)
                  THEN BinomialCoefficient(n, j - 1) ELSE 0]),
        2 ^ n)

(* int(overall_choice_share * n_observations): the product of the float    *)
(* k / n with n falls below k for these k, n (n up to 25)                  *)
TruncatedSuccesses(k, n) == IF <<k, n>> \in {<<15, 22>>, <<13, 23>>} THEN k - 1 ELSE k

(* analyze_single_attribute for one level *)
analyze_single_attribute(data, lv) ==
    LET chose(rec) == rec.chose_A[lv.attribute]
        a_data == SelectSeq(data, LAMBDA rec : rec.A[lv.attribute] = lv.value)
        b_data == SelectSeq(data, LAMBDA rec : rec.B[lv.attribute] = lv.value)
        a_choice_share ==
            IF Len(a_data) > 0
            THEN Rat(SumSeq([k \in 1..Len(a_data) |-> chose(a_data[k])]), Len(a_data))
            ELSE Rat(0, 1)
        b_choice_share ==
            IF Len(b_data) > 0
            THEN Rat(SumSeq([k \in 1..Len(b_data) |-> 1 - chose(b_data[k])]), Len(b_data))
            ELSE Rat(0, 1)
        level_data == SelectSeq(data, LAMBDA rec : rec.A[lv.attribute] = lv.value
                                                   \/ rec.B[lv.attribute] = lv.value)
        level_choices == [k \in 1..Len(level_data) |->
                            IF level_data[k].A[lv.attribute] = lv.value
                            THEN chose(level_data[k]) ELSE 1 - chose(level_data[k])]
        n_observations == Len(level_data)
        overall_choice_share ==
            IF n_observations > 0 THEN Rat(SumSeq(level_choices), n_observations)
            ELSE Rat(0, 1)
        p_value ==
            IF n_observations > 0
            THEN BinomTestP(TruncatedSuccesses(SumSeq(level_choices), n_observations),
                            n_observations)
            ELSE Rat(1, 1)
    IN [attribute |-> lv.attribute,
        level |-> lv.value,
        choice_share |-> overall_choice_share,
        effect_pp |-> RatMul(RatAdd(overall_choice_share, Rat(-1, 2)), Rat(100, 1)),
        p_value |-> p_value,
        n_observations |-> n_observations,
        a_choice_share |-> a_choice_share,
        b_choice_share |-> b_choice_share]

RunComprehensiveBuilder ==
    Build("comprehensive_attribute_analysis", ConditionalLogitColumns,
          comprehensive_convert_to_choice_format(df))

(* analyze_attributes *)
RunComprehensiveAnalysis ==
    /\ pc = "converted"
    /\ script = "comprehensive_attribute_analysis"
    /\ results' = [n \in 1..Len(AnalyzedLevels(df)) |->
                      analyze_single_attribute(choice_data, AnalyzedLevels(df)[n])]
    /\ pc' = "analyzed"
    /\ error' = "none"
    /\ UNCHANGED <<files, utilities, importance, completed, df, lookup, rating_data, script,
                   choice_data, design, fit, caught>>

----------------------------------------------------------------------------
(* Column names built and taken apart character by character.  A string is *)
(* held as its tokens: the words, and one token for every blank and        *)
(* punctuation character.  The token "-" between two blanks is the dash    *)
(* U+2014 of the survey's sentences.                                       *)

(* The words of a phrase with the blanks between them *)
Sp(words) ==
    Flatten([k \in 1..Len(words) |-> IF k = 1 THEN words[k] ELSE <<" ">> \o words[k]])

RECURSIVE JoinRange(_, _, _)
JoinRange(tokens, lo, hi) ==
    IF lo > hi THEN ""
    ELSE IF lo = hi THEN tokens[lo]
    ELSE JoinRange(tokens, lo, (lo + hi) \div 2) \o JoinRange(tokens, ((lo + hi) \div 2) + 1, hi)

(* The string of a token sequence *)
Join(tokens) == JoinRange(tokens, 1, Len(tokens))

PriceTokens(units, cents) ==
    Sp(<< <<"Free">>, <<"trial">>, <<"+">>, <<"$", units, ".", cents, "/", "month">> >>)

SupportiveTokens(apostrophe) ==
    Sp(<< <<"That">>, <<"didn", apostrophe, "t">>, <<"work", ",">>, <<"but">>, <<"mistakes">>,
          <<"are">>, <<"how">>, <<"scientists">>, <<"learn", ".">>, <<"Let", apostrophe, "s">>,
          <<"try">>, <<"another">>, <<"design", ".">> >>)

NeutralTokens(apostrophe) ==
    Sp(<< <<"This">>, <<"design">>, <<"didn", apostrophe, "t">>, <<"launch">>,
          <<"successfully", ".">>, <<"Here">>, <<"is">>, <<"what">>, <<"went">>,
          <<"wrong", ".">> >>)

RescueTokens(open, close) ==
    Sp(<< <<"Space">>, <<"rescue">>, <<"story", ":">>, <<open, "Your">>, <<"spaceship">>,
          <<"must">>, <<"deliver">>, <<"medicine">>, <<"to">>, <<"astronauts">>, <<"stranded">>,
          <<"on">>, <<"the">>, <<"Moon">>, <<"before">>, <<"their">>, <<"oxygen">>, <<"runs">>,
          <<"out", ".", close>> >>)

(* The tokens of the level values *)
Tokens(v) ==
    CASE v = FemaleTutor -> Sp(<< <<"Female">>, <<"AI">>, <<"tutor">> >>)
      [] v = MaleTutor -> Sp(<< <<"Male">>, <<"AI">>, <<"tutor">> >>)
      [] v = FriendlyColors ->
            Sp(<< <<"Friendly">>, <<"&">>, <<"warm">>, <<"(", "coral">>, <<"/">>,
                  <<"lavender">>, <<"/">>, <<"peach", ")">> >>)
      [] v = TechColors ->
            Sp(<< <<"Tech">>, <<"&">>, <<"bold">>, <<"(", "deep">>, <<"blue">>, <<"/">>,
                  <<"black">>, <<"/">>, <<"neon", ")">> >>)
      [] v = SchoolPays ->
            Sp(<< <<"School">>, <<"pays">>, <<"(", "free">>, <<"for">>, <<"families", ")">> >>)
      [] v = Price499 -> PriceTokens("4", "99")
      [] v = Price799 -> PriceTokens("7", "99")
      [] v = Price999 -> PriceTokens("9", "99")
      [] v = Price1299 -> PriceTokens("12", "99")
      [] v = GrowthMsg ->
            Sp(<< <<"Great">>, <<"job">>, <<"-">>, <<"your">>, <<"effort">>, <<"and">>,
                  <<"persistence">>, <<"helped">>, <<"you">>, <<"solve">>, <<"this", "!">> >>)
      [] v = BrillianceMsg ->
            Sp(<< <<"You">>, <<"solved">>, <<"it">>, <<"so">>, <<"quickly">>, <<"-">>, <<"you">>,
                  <<"must">>, <<"have">>, <<"a">>, <<"really">>, <<"special">>, <<"talent">>,
                  <<"for">>, <<"science", "!">> >>)
      [] v = SupportiveMsgPlain -> SupportiveTokens("'")
      [] v = SupportiveMsgCurly -> SupportiveTokens("{u2019}")
      [] v = NeutralMsgPlain -> NeutralTokens("'")
      [] v = NeutralMsgCurly -> NeutralTokens("{u2019}")
      [] v = RescueStoryPlain -> RescueTokens("\"", "\"")
      [] v = RescueStoryCurly -> RescueTokens("{u201C}", "{u201D}")
      [] v = NoStory ->
            Sp(<< <<"No">>, <<"story", ":">>, <<"Just">>, <<"design">>, <<"and">>, <<"test">>,
                  <<"rockets">>, <<"in">>, <<"a">>, <<"sandbox-style">>, <<"game", ".">> >>)
      [] v = HeroAstronaut ->
            Sp(<< <<"Hero">>, <<"astronaut", ":">>, <<"You">>, <<"are">>, <<"the">>,
                  <<"astronaut">>, <<"in">>, <<"charge">>, <<"-">>, <<"the">>, <<"team">>,
                  <<"is">>, <<"counting">>, <<"on">>, <<"you">>, <<"to">>, <<"complete">>,
                  <<"this">>, <<"mission", ".">> >>)
      [] v = NoSpecificRole ->
            Sp(<< <<"No">>, <<"specific">>, <<"role", ":">>, <<"Just">>, <<"design">>, <<"a">>,
                  <<"rocket">>, <<"and">>, <<"see">>, <<"how">>, <<"it">>, <<"works", ".">> >>)

(* The tokens of an attribute name *)
AttrTokens(attr) ==
    CASE attr = "Tutor" -> <<"Tutor">>
      [] attr = "Color_palette" -> <<"Color", "_", "palette">>
      [] attr = "Pricing" -> <<"Pricing">>
      [] attr = "Message_success_" -> <<"Message", "_", "success", "_">>
      [] attr = "Message_failure_" -> <<"Message", "_", "failure", "_">>
      [] attr = "Storytelling" -> <<"Storytelling">>
      [] attr = "Role_play" -> <<"Role", "_", "play">>

(* A chain of str.replace calls on single characters: the characters       *)
(* taken out, and the characters put in place of others                    *)
ReplaceChars(tokens, removed, replaced) ==
    LET kept == SelectSeq(tokens, LAMBDA t : t \notin removed)
    IN [k \in 1..Len(kept) |->
          IF kept[k] \in DOMAIN replaced THEN replaced[kept[k]] ELSE kept[k]]

(* s.replace('__', '_'): of a run of underscores every second one goes *)
ReplaceDoubleUnderscore(tokens) ==
    LET offset(i) == Cardinality({j \in 1..i : \A k \in j..i : tokens[k] = "_"}) - 1
        kept == SelectSeq([i \in 1..Len(tokens) |-> i],
                          LAMBDA i : tokens[i] # "_" \/ offset(i) % 2 = 0)
    IN [k \in 1..Len(kept) |-> tokens[kept[k]]]

(* s.strip('_') *)
StripUnderscores(tokens) ==
    LET inner == {i \in 1..Len(tokens) : tokens[i] # "_"}
    IN IF inner = {} THEN <<>>
       ELSE SubSeq(tokens, CHOOSE i \in inner : \A j \in inner : i <= j,
                   CHOOSE i \in inner : \A j \in inner : j <= i)

(* s.startswith(prefix) and s[len(prefix):] *)
StartsWith(tokens, prefix) ==
    Len(prefix) <= Len(tokens) /\ SubSeq(tokens, 1, Len(prefix)) = prefix

(* create_dummy_variables: level_clean and col_name of a level *)
DummyName(attr, level) ==
    LET level_clean == ReplaceChars(Tokens(level), {"(", ")", ":", "-", ",", "!", "?", "'"},
                                    " " :> "_")
    IN StripUnderscores(ReplaceDoubleUnderscore(AttrTokens(attr) \o <<"_">> \o level_clean))

----------------------------------------------------------------------------
(* improved_conjoint_analysis.py *)

ImprovedConjointColumns ==
    ConditionalLogitColumns
    \cup {LearningCol(t) : t \in Tasks} \cup {EnjoymentCol(t) : t \in Tasks}

(* One row per alternative of each choice task, A before B; the task's two *)
(* ratings are copied into the row of either alternative                   *)
improved_conjoint_long_format(table) ==
    [k \in 1..(Len(table) * NumTasks * 2) |->
        LET i == ((k - 1) \div 2) + 1
            alt == Alts[((k - 1) % 2) + 1]
            row == table[RowOfIndex(i)]
            task == TaskOfIndex(i)
        IN [respondent_id |-> RowOfIndex(i) - 1,
            task |-> task,
            alternative |-> alt,
            chosen |-> IF row[ChoiceCol(task)] = alt THEN 1 ELSE 0,
            grade |-> row[GradeCol],
            perceived_learning |-> row[LearningCol(task)],
            expected_enjoyment |-> row[EnjoymentCol(task)],
            attrs |-> [a \in AttrSet |-> row[AttrCol(alt, a, task)]]]]

baseline_levels ==
    "Tutor" :> MaleTutor @@ "Color_palette" :> TechColors @@ "Pricing" :> Price1299
    @@ "Message_success_" :> BrillianceMsg @@ "Message_failure_" :> NeutralMsgPlain
    @@ "Storytelling" :> NoStory @@ "Role_play" :> NoSpecificRole

(* The dummy columns of create_dummy_variables in the order they are       *)
(* added: for every attribute, one per observed level other than the       *)
(* attribute's entry of baseline_levels.  A column is named here by its    *)
(* attribute and level.                                                    *)
DummyColumns(data) ==
    Flatten([i \in 1..Len(Attrs) |->
                LET levels == Unique([k \in 1..Len(data) |-> data[k].attrs[Attrs[i]]])
                    kept == SelectSeq(levels, LAMBDA level : level # baseline_levels[Attrs[i]])
                IN [n \in 1..Len(kept) |-> <<Attrs[i], kept[n]>>]])

(* col.startswith(attr + '_').  The name of a dummy column is              *)
(* f"{attr}_{level_clean}".replace('__', '_'): for an attribute whose own  *)
(* name ends in an underscore the replacement takes the separator away,    *)
(* and the column no longer starts with attr + '_'                         *)
StartsWithAttribute(col) ==
    \E attr \in AttrSet : StartsWith(DummyName(col[1], col[2]), AttrTokens(attr) \o <<"_">>)

improved_conjoint_feature_cols(data) == SelectSeq(DummyColumns(data), StartsWithAttribute)

(* add_constant puts 'const' before the features *)
ConstCol == <<"const", "">>

(* The estimates a fitted model hands back, one per parameter *)
ReturnedEstimates(result, columns) ==
    [j \in 1..Len(columns) |->
        [feature |-> columns[j], coefficient |-> result.params[j],
         p_value |-> result.pvalues[j]]]

RunImprovedConjointBuilder ==
    Build("improved_conjoint_analysis", ImprovedConjointColumns,
          improved_conjoint_long_format(df))

(* run_conditional_logit_analysis, with run_fallback_logistic_regression   *)
(* in its except branch.  An exception of the fallback fit is not caught.  *)
RunImprovedConjointAnalysis ==
    /\ pc = "converted"
    /\ script = "improved_conjoint_analysis"
    /\ \E feature_cols \in {improved_conjoint_feature_cols(choice_data)} :
          /\ design' = [columns |-> feature_cols,
                        X |-> [k \in 1..Len(choice_data) |->
                                 [c \in {feature_cols[j] : j \in 1..Len(feature_cols)} |->
                                     IF choice_data[k].attrs[c[1]] = c[2] THEN 1 ELSE 0]],
                        y |-> [k \in 1..Len(choice_data) |-> choice_data[k].chosen]]
          /\ \E result \in MLEFits(Len(feature_cols), Len(choice_data), "ConditionalLogit")
                            \cup {NoFit} :
                IF result # NoFit
                THEN /\ fit' = result
                     /\ results' = ReturnedEstimates(result, feature_cols)
                     /\ error' = "none"
                     /\ pc' = "analyzed"
                     /\ UNCHANGED caught
                ELSE /\ caught' = Append(caught, "Exception")
                     /\ \E fallback \in MLEFits(Len(feature_cols) + 1, Len(choice_data), "Logit")
                                        \cup {NoFit} :
                           IF fallback # NoFit
                           THEN /\ fit' = fallback
                                /\ results' = ReturnedEstimates(fallback, <<ConstCol>> \o feature_cols)
                                /\ error' = "none"
                                /\ pc' = "analyzed"
                           ELSE /\ fit' = NoFit
                                /\ results' = <<>>
                                /\ error' = "LinAlgError"
                                /\ pc' = "aborted"
    /\ UNCHANGED <<files, utilities, importance, completed, df, lookup, rating_data, script, choice_data>>

(* parse_feature_name: the levels of attribute_structure in the order of   *)
(* the dictionary                                                          *)
attribute_structure ==
    << <<"Pricing", <<SchoolPays, Price499, Price799, Price999, Price1299>> >>,
       <<"Tutor", <<FemaleTutor, MaleTutor>> >>,
       <<"Role_play", <<HeroAstronaut, NoSpecificRole>> >>,
       <<"Storytelling", <<RescueStoryPlain, NoStory>> >>,
       <<"Color_palette", <<FriendlyColors, TechColors>> >>,
       <<"Message_success_", <<GrowthMsg, BrillianceMsg>> >>,
       <<"Message_failure_", <<SupportiveMsgPlain, NeutralMsgPlain>> >> >>

exact_mapping ==
    "Tutor_Female_AI_tutor" :> <<"Tutor", FemaleTutor>>
    @@ "Color_palette_Friendly_&_warm_coral_/_lavender_/_peach" :> <<"Color_palette", FriendlyColors>>
    @@ "Pricing_Free_trial_+_$4.99/month" :> <<"Pricing", Price499>>
    @@ "Pricing_Free_trial_+_$7.99/month" :> <<"Pricing", Price799>>
    @@ "Pricing_Free_trial_+_$12.99/month" :> <<"Pricing", Price1299>>
    @@ "Pricing_School_pays_free_for_families" :> <<"Pricing", SchoolPays>>
    @@ "Message_success_Great_job_your_effort_and_persistence_helped_you_solve_this"
          :> <<"Message_success_", GrowthMsg>>
    @@ "Message_failure_That_didnt_work_but_mistakes_are_how_scientists_learn_Lets_try_another_design"
          :> <<"Message_failure_", SupportiveMsgPlain>>
    @@ "Storytelling_Space_rescue_story_\"Your_spaceship_must_deliver_medicine_to_astronauts_stranded_on_the_Moon_before_their_oxygen_runs_out.\""
          :> <<"Storytelling", RescueStoryPlain>>
    @@ "Role_play_Hero_astronaut_You_are_the_astronaut_in_charge_the_team_is_counting_on_you_to_complete_this_mission."
          :> <<"Role_play", HeroAstronaut>>

(* cleaned_original of a level of attribute_structure *)
cleaned_original(original_level) ==
    StripUnderscores(ReplaceDoubleUnderscore(
        ReplaceChars(Tokens(original_level),
                     {"(", ")", ":", "-", ",", "!", "?", "'", "\""},
                     " " :> "_" @@ "/" :> "_" @@ "+" :> "plus" @@ "$" :> "dollar"
                     @@ "." :> "dot")))

(* parse_feature_name of a column name: the exact match, the partial      *)
(* match of the story, the first level of the prefix loop, else Unknown    *)
parse_feature_name(feature_name) ==
    LET name == Join(feature_name)
        matches ==
            Flatten([i \in 1..Len(attribute_structure) |->
                LET attr == attribute_structure[i][1]
                    levels == attribute_structure[i][2]
                    prefix == AttrTokens(attr) \o <<"_">>
                IN IF StartsWith(feature_name, prefix)
                   THEN LET level_part ==
                                Join(SubSeq(feature_name, Len(prefix) + 1, Len(feature_name)))
                        IN SelectSeq([n \in 1..Len(levels) |-> <<attr, levels[n]>>],
                                     LAMBDA m : level_part = Join(cleaned_original(m[2])))
                   ELSE <<>>])
    IN IF name \in DOMAIN exact_mapping THEN exact_mapping[name]
       ELSE IF StartsWith(feature_name,
                          <<"Storytelling", "_", "Space", "_", "rescue", "_", "story", "_">>)
            THEN <<"Storytelling", RescueStoryPlain>>
       ELSE IF matches # <<>> THEN matches[1]
       ELSE <<"Unknown", name>>

(* The names create_dummy_variables gives the dummy columns of the data,   *)
(* each handed to parse_feature_name                                       *)
ParseDummyColumnNames ==
    /\ pc = "converted"
    /\ script = "improved_conjoint_analysis"
    /\ lookup' = [j \in 1..Len(DummyColumns(choice_data)) |->
                    LET col == DummyColumns(choice_data)[j]
                    IN [column |-> col,
                        col_name |-> Join(DummyName(col[1], col[2])),
                        parsed |-> parse_feature_name(DummyName(col[1], col[2]))]]
    /\ pc' = "parsed"
    /\ error' = "none"
    /\ UNCHANGED <<files, utilities, importance, completed, df, rating_data, script,
                   choice_data, design, fit, results, caught>>

----------------------------------------------------------------------------
(* Specification of attribute coding, feature selection and the result     *)
(* table over tables whose attribute levels vary                           *)

CodingCells(ty) ==
    {Cell("A", ProfileHigh(ty), ProfileLow(ty), "4", "3"),
     Cell("A", Profile499(ty), ProfileMid(ty), "4", "4"),
     Cell("B", Profile999(ty), ProfileHigh(ty), "3", "3"),
     Cell("B", ProfileHigh(ty), ProfileLow(ty), "3", "4")}

InitCoding ==
    /\ df \in UNION {Tables(CodingCells(ty), AllColumns(Tasks)) : ty \in Typography}
    /\ InitCommon


----------------------------------------------------------------------------
(* conjoint_analysis.py, conjoint_results_analysis.py and                  *)
(* enhanced_conjoint_analysis.py: the analyzers' loading methods.  A row   *)
(* of their tables is a function over the keys of the row.                 *)

(* attr.lower() *)
Lower(attr) ==
    CASE attr = "Tutor" -> "tutor"
      [] attr = "Color_palette" -> "color_palette"
      [] attr = "Pricing" -> "pricing"
      [] attr = "Message_success_" -> "message_success_"
      [] attr = "Message_failure_" -> "message_failure_"
      [] attr = "Storytelling" -> "storytelling"
      [] attr = "Role_play" -> "role_play"

(* pd.DataFrame(list of dicts): the columns are the keys of all dicts, a   *)
(* dict without a key gets NaN in that column                              *)
DataFrame(records) ==
    LET columns == UNION {DOMAIN records[i] : i \in 1..Len(records)}
    IN [i \in 1..Len(records) |->
          [k \in columns |-> IF k \in DOMAIN records[i] THEN records[i][k] ELSE NaN]]

FrameColumns(frame) == UNION {DOMAIN frame[i] : i \in 1..Len(frame)}

(* frame.dropna(subset=...): the rows without NaN in the subset columns *)
dropna(frame, subset) == SelectSeq(frame, LAMBDA row : \A k \in subset : row[k] # NaN)

(* The attribute entries of a record: only for the columns the row has *)
(* The key of an attribute in a record: attr.lower() in the records of one *)
(* option, f'{option}_{attr.lower()}' in the records of a choice set       *)
RecordKey(keyed, option, attr) ==
    IF keyed = "attribute" THEN Lower(attr) ELSE option \o "_" \o Lower(attr)

AttributeEntries(row, options, task, keyed) ==
    LET present == {oa \in options \X AttrSet : AttrCol(oa[1], oa[2], task) \in DOMAIN row}
    IN [k \in {RecordKey(keyed, oa[1], oa[2]) : oa \in present} |->
          LET oa == CHOOSE x \in present : RecordKey(keyed, x[1], x[2]) = k
          IN row[AttrCol(oa[1], oa[2], task)]]

(* ConjointAnalyzer._convert_to_long_format: two records per task *)
long_record(row, r, task, option) ==
    LET choice == row[ChoiceCol(task)]
    IN [respondent_id |-> r - 1,
        task |-> task,
        option |-> option,
        chosen |-> IF choice = option THEN 1 ELSE 0,
        perceived_learning |-> IF choice = option THEN row[LearningCol(task)] ELSE NaN,
        expected_enjoyment |-> IF choice = option THEN row[EnjoymentCol(task)] ELSE NaN,
        grade |-> row[GradeCol],
        prolific_id |-> row[ProlificCol]]
       @@ AttributeEntries(row, {option}, task, "attribute")

_convert_to_long_format(table) ==
    DataFrame([k \in 1..(Len(table) * NumTasks * 2) |->
                  LET i == ((k - 1) \div 2) + 1
                  IN long_record(table[RowOfIndex(i)], RowOfIndex(i), TaskOfIndex(i),
                                 Alts[((k - 1) % 2) + 1])])

(* The columns row[...] reads without a test; the ratings are read only    *)
(* for a chosen option                                                     *)
LongFormatReads(row) ==
    {GradeCol, ProlificCol} \cup {ChoiceCol(t) : t \in Tasks}
    \cup {LearningCol(t) : t \in {u \in Tasks : ChoiceCol(u) \in DOMAIN row
                                               /\ row[ChoiceCol(u)] \in {"A", "B"}}}
    \cup {EnjoymentCol(t) : t \in {u \in Tasks : ChoiceCol(u) \in DOMAIN row
                                                /\ row[ChoiceCol(u)] \in {"A", "B"}}}

HeroAstronautQuoted == "Hero astronaut: \"You are the astronaut in charge - the team is counting on you to complete this mission.\""
NoSpecificRoleQuoted == "No specific role: \"Just design a rocket and see how it works.\""

(* The dictionaries of the .map calls of _clean_and_encode_data *)
simple_mapping(key) ==
    CASE key = "tutor" -> {<<FemaleTutor, "Female">>, <<MaleTutor, "Male">>}
      [] key = "color_palette" -> {<<FriendlyColors, "Warm">>, <<TechColors, "Tech">>}
      [] key = "pricing" -> {<<SchoolPays, "Free">>, <<Price499, "$4.99">>, <<Price799, "$7.99">>,
                             <<Price999, "$9.99">>, <<Price1299, "$12.99">>}
      [] key = "message_success_" -> {<<GrowthMsg, "Growth">>, <<BrillianceMsg, "Brilliance">>}
      [] key = "message_failure_" -> {<<SupportiveMsgPlain, "Supportive">>,
                                      <<NeutralMsgPlain, "Neutral">>}
      [] key = "storytelling" -> {<<RescueStoryPlain, "Story">>, <<NoStory, "No_Story">>}
      [] key = "role_play" -> {<<HeroAstronautQuoted, "Role_Play">>,
                               <<NoSpecificRoleQuoted, "No_Role">>}

(* series.map(dict): NaN for a value the dictionary lacks *)
MapValue(dict, v) ==
    IF \E e \in dict : e[1] = v THEN (CHOOSE e \in dict : e[1] = v)[2] ELSE NaN

SimpleKey(key) ==
    CASE key = "tutor" -> "tutor_simple"
      [] key = "color_palette" -> "color_simple"
      [] key = "pricing" -> "pricing_simple"
      [] key = "message_success_" -> "message_success_simple"
      [] key = "message_failure_" -> "message_failure_simple"
      [] key = "storytelling" -> "storytelling_simple"
      [] key = "role_play" -> "role_play_simple"

AttrKeys == {Lower(a) : a \in AttrSet}

(* ConjointAnalyzer._clean_and_encode_data on a frame that has the seven   *)
(* attribute columns                                                       *)
_clean_and_encode_data(long_data) ==
    LET kept == dropna(long_data, AttrKeys)
    IN [i \in 1..Len(kept) |->
          kept[i] @@ [k \in {SimpleKey(a) : a \in AttrKeys} |->
                         LET a == CHOOSE x \in AttrKeys : SimpleKey(x) = k
                         IN MapValue(simple_mapping(a), kept[i][a])]]

(* ConjointAnalyzer.load_and_preprocess_data *)
ConjointAnalyzer_load_and_preprocess_data ==
    /\ pc = "loaded"
    /\ script' = "conjoint_analysis"
    /\ IF \E r \in 1..Len(df) : ~(LongFormatReads(df[r]) \subseteq DOMAIN df[r])
       THEN choice_data' = <<>> /\ pc' = "aborted" /\ error' = "KeyError"
       ELSE \E long_data \in {_convert_to_long_format(df)} :
              IF ~(AttrKeys \subseteq FrameColumns(long_data))
              THEN choice_data' = long_data /\ pc' = "aborted" /\ error' = "KeyError"
              ELSE /\ choice_data' = _clean_and_encode_data(long_data)
                   /\ pc' = "preprocessed"
                   /\ error' = "none"
    /\ completed' = IF pc' = "preprocessed"
                    THEN Append(completed, "load_and_preprocess_data") ELSE completed
    /\ UNCHANGED <<files, utilities, importance, df, lookup, rating_data, design, fit, results, caught>>

(* ConjointResultsAnalyzer._convert_to_choice_format: one record per task *)
results_choice_record(row, r, task) ==
    LET choice == row[ChoiceCol(task)]
    IN [respondent_id |-> r - 1,
        task |-> task,
        chosen_option |-> choice,
        choice_binary |-> CodeChoice(choice),
        grade |-> row[GradeCol]]
       @@ AttributeEntries(row, {"A", "B"}, task, "option")

_convert_to_choice_format(table) ==
    DataFrame([i \in 1..(Len(table) * NumTasks) |->
                  results_choice_record(table[RowOfIndex(i)], RowOfIndex(i), TaskOfIndex(i))])

(* ConjointResultsAnalyzer.load_and_prepare_data *)
ConjointResultsAnalyzer_load_and_prepare_data ==
    /\ pc = "loaded"
    /\ script' = "conjoint_results_analysis"
    /\ IF HasColumns(df, {GradeCol} \cup {ChoiceCol(t) : t \in Tasks})
       THEN /\ choice_data' = _convert_to_choice_format(df)
            /\ pc' = "preprocessed"
            /\ error' = "none"
       ELSE choice_data' = <<>> /\ pc' = "aborted" /\ error' = "KeyError"
    /\ UNCHANGED <<files, utilities, importance, completed, df, lookup, rating_data, design, fit, results, caught>>

(* EnhancedConjointAnalyzer._convert_to_enhanced_long_format *)
enhanced_choice_record(row, r, task) ==
    [respondent_id |-> r - 1,
     task |-> task,
     chosen_option |-> row[ChoiceCol(task)],
     grade |-> row[GradeCol],
     prolific_id |-> row[ProlificCol]]
    @@ AttributeEntries(row, {"A", "B"}, task, "option")

(* if choice in ['A', 'B'] and not pd.isna(row[learning_col]) *)
HasRating(row, task) ==
    row[ChoiceCol(task)] \in {"A", "B"} /\ row[LearningCol(task)] # NaN

rating_record(row, r, task) ==
    [respondent_id |-> r - 1,
     task |-> task,
     chosen_option |-> row[ChoiceCol(task)],
     perceived_learning |-> row[LearningCol(task)],
     expected_enjoyment |-> row[EnjoymentCol(task)],
     grade |-> row[GradeCol]]
    @@ AttributeEntries(row, {row[ChoiceCol(task)]}, task, "attribute")

enhanced_choice_data(table) ==
    DataFrame([i \in 1..(Len(table) * NumTasks) |->
                  enhanced_choice_record(table[RowOfIndex(i)], RowOfIndex(i), TaskOfIndex(i))])

enhanced_rating_data(table) ==
    LET rated == SelectSeq([i \in 1..(Len(table) * NumTasks) |-> i],
                           LAMBDA i : HasRating(table[RowOfIndex(i)], TaskOfIndex(i)))
    IN DataFrame([n \in 1..Len(rated) |->
                     rating_record(table[RowOfIndex(rated[n])], RowOfIndex(rated[n]),
                                   TaskOfIndex(rated[n]))])

EnhancedReads(row) ==
    {GradeCol, ProlificCol} \cup {ChoiceCol(t) : t \in Tasks}
    \cup {LearningCol(t) : t \in {u \in Tasks : ChoiceCol(u) \in DOMAIN row
                                               /\ row[ChoiceCol(u)] \in {"A", "B"}}}
    \cup {EnjoymentCol(t) : t \in {u \in Tasks : /\ {ChoiceCol(u), LearningCol(u)} \subseteq DOMAIN row
                                                /\ HasRating(row, u)}}

(* _create_effects_coding: the columns it adds to a row of the frame *)
_create_effects_coding(frame, source_col, row) ==
    LET unique_values == Unique([i \in 1..Len(frame) |-> frame[i][source_col]])
        n_levels == Len(unique_values)
    IN IF n_levels = 2
       THEN [k \in {source_col \o "_effects"} |->
                IF row[source_col] = unique_values[1] THEN 1
                ELSE IF row[source_col] = unique_values[2] THEN -1
                ELSE NaN]
       ELSE [k \in {source_col \o "_effects_" \o ToString(i - 1) : i \in 1..(n_levels - 1)} |->
                LET i == CHOOSE j \in 1..(n_levels - 1) :
                            k = source_col \o "_effects_" \o ToString(j - 1)
                IN IF row[source_col] = unique_values[i] THEN 1
                   ELSE IF row[source_col] = unique_values[n_levels] THEN -1
                   ELSE 0]

RECURSIVE WithEffects(_, _)
WithEffects(frame, source_cols) ==
    IF source_cols = <<>> THEN frame
    ELSE WithEffects([i \in 1..Len(frame) |->
                         frame[i] @@ _create_effects_coding(frame, Head(source_cols), frame[i])],
                     Tail(source_cols))

(* The source columns in the order of the loops of _clean_and_effects_encode *)
ChoiceSourceCols(frame) ==
    SelectSeq([n \in 1..(2 * Len(Attrs)) |->
                  RecordKey("option", Alts[((n - 1) % 2) + 1], Attrs[((n - 1) \div 2) + 1])],
              LAMBDA col : col \in FrameColumns(frame))

RatingSourceCols(frame) ==
    SelectSeq([n \in 1..Len(Attrs) |-> Lower(Attrs[n])],
              LAMBDA col : col \in FrameColumns(frame))

_clean_and_effects_encode_choice(frame) ==
    LET kept == dropna(frame, {"chosen_option"})
    IN WithEffects(kept, ChoiceSourceCols(kept))

_clean_and_effects_encode_rating(frame) ==
    IF frame = <<>> THEN frame
    ELSE LET kept == dropna(frame, {"perceived_learning", "expected_enjoyment"})
         IN WithEffects(kept, RatingSourceCols(kept))

(* EnhancedConjointAnalyzer.load_and_preprocess_data.  The balance report  *)
(* of _check_randomization_balance changes nothing that is modelled.       *)
EnhancedConjointAnalyzer_load_and_preprocess_data ==
    /\ pc = "loaded"
    /\ script' = "enhanced_conjoint_analysis"
    /\ IF \E r \in 1..Len(df) : ~(EnhancedReads(df[r]) \subseteq DOMAIN df[r])
       THEN /\ choice_data' = <<>> /\ rating_data' = <<>>
            /\ pc' = "aborted" /\ error' = "KeyError"
       ELSE /\ choice_data' = _clean_and_effects_encode_choice(enhanced_choice_data(df))
            /\ rating_data' = _clean_and_effects_encode_rating(enhanced_rating_data(df))
            /\ pc' = "preprocessed"
            /\ error' = "none"
    /\ UNCHANGED <<files, utilities, importance, completed, df, lookup, design, fit, results, caught>>

----------------------------------------------------------------------------
(* The steps of the specification of attribute coding *)

NextCoding ==
    \/ RunConditionalLogitBuilder
    \/ RunConditionalLogitModel
    \/ RunImprovedBuilder
    \/ RunImprovedModel
    \/ RunProperBuilder
    \/ RunProperAnalysis
    \/ RunFinalBuilder
    \/ RunRobustAnalysis
    \/ RunGranularBuilder
    \/ RunGranularAnalysis
    \/ RunCorrectedBuilder
    \/ RunCorrectedAnalysis
    \/ RunAttributeBuilder
    \/ RunAttributeAnalysis
    \/ RunImprovedConjointBuilder
    \/ RunImprovedConjointAnalysis
    \/ EnhancedConjointAnalyzer_load_and_preprocess_data

SpecCoding == InitCoding /\ [][NextCoding]_vars

----------------------------------------------------------------------------
(* Specification of the analyzers' loading methods over tables with absent *)
(* columns and empty cells                                                 *)

ProfileNoTutor == [Profile499("plain") EXCEPT !["Tutor"] = NaN]

LoadCells ==
    {Cell("A", ProfileHigh("plain"), ProfileLow("plain"), "4", "3"),
     Cell("B", ProfileLow("plain"), ProfileHigh("plain"), "3", NaN),
     Cell(NaN, ProfileLow("plain"), ProfileMid("plain"), NaN, NaN),
     Cell("A", ProfileNoTutor, ProfileLow("plain"), "5", "5")}

(* The tables' columns: all, or all but some *)
AbsentColumns ==
    {{},
     {AttrCol("A", "Tutor", 3)},
     {AttrCol(Alts[a], "Role_play", t) : a \in 1..2, t \in Tasks},
     {ProlificCol}}

InitLoad ==
    /\ df \in UNION {Tables(LoadCells, AllColumns(Tasks) \ absent) : absent \in AbsentColumns}
    /\ InitCommon

NextLoad ==
    \/ ConjointAnalyzer_load_and_preprocess_data
    \/ ConjointResultsAnalyzer_load_and_prepare_data
    \/ EnhancedConjointAnalyzer_load_and_preprocess_data

SpecLoad == InitLoad /\ [][NextLoad]_vars

(* The level table of the running script *)
LevelTable ==
    CASE script = "conditional_logit_analysis" -> get_all_attribute_levels
      [] script = "improved_conditional_logit" -> level_mapping
      [] script = "granular_conjoint_analysis" -> granular_get_all_attribute_levels
      [] script = "corrected_granular_conjoint_analysis" -> corrected_get_all_attribute_levels
      [] OTHER -> <<>>

----------------------------------------------------------------------------
(* Specification of the naming of a level's column and of the look-up of   *)
(* the level from the column, as the analyses do between the coding of the *)
(* records and the writing of the result table                             *)

LevelScripts ==
    {"conditional_logit_analysis", "improved_conditional_logit",
     "granular_conjoint_analysis", "corrected_granular_conjoint_analysis"}

InitRoundTrip ==
    /\ df = <<>>
    /\ InitCommon

(* Starting one of the scripts that carry a level table *)
ChooseScript ==
    /\ script = "none"
    /\ \E s \in LevelScripts : script' = s
    /\ UNCHANGED <<files, utilities, importance, completed, df, lookup, rating_data, pc, choice_data, error, design, fit, results, caught>>

(* f'{code}_diff' for a level of the table *)
NameColumn ==
    /\ script # "none"
    /\ lookup.stage = "none"
    /\ \E i \in 1..Len(LevelTable) :
          lookup' = [stage |-> "encoded", level |-> i,
                     column |-> DiffName(LevelTable[i].code), found |-> 0]
    /\ UNCHANGED <<files, utilities, importance, completed, df, rating_data, pc, script, choice_data, error, design, fit, results, caught>>

(* level_code = feature.replace('_diff', ''), then the level of that code: *)
(* get_level_info in improved_conditional_logit.py, next(level for level   *)
(* in all_levels if level['code'] == code) in the others                   *)
LookUpLevel ==
    /\ lookup.stage = "encoded"
    /\ lookup' = [lookup EXCEPT !.stage = "decoded",
                                !.found = IF script = "improved_conditional_logit"
                                          THEN get_level_info(StripDiff(lookup.column))
                                          ELSE FirstWithCode(LevelTable, StripDiff(lookup.column))]
    /\ UNCHANGED <<files, utilities, importance, completed, df, rating_data, pc, script, choice_data, error, design, fit, results, caught>>

NextRoundTrip ==
    \/ ChooseScript
    \/ NameColumn
    \/ LookUpLevel

SpecRoundTrip == InitRoundTrip /\ [][NextRoundTrip]_vars

----------------------------------------------------------------------------
(* The estimator run again on the same data.  Here the fit is computed:    *)
(* LogisticRegression(...).fit and sm.Logit(...).fit are iterations whose  *)
(* every step is a function of X, y and the current point, and neither is  *)
(* given a point to start from.  One step is modelled, the step along the  *)
(* gradient of the log-likelihood, with the logistic curve replaced by its *)
(* tangent at 0, where the iteration starts.  A sequence concatenated with *)
(* the empty one is the same sequence, held as a tuple of computed values. *)

EstimatorRuns == 2

(* warm_start and start_params are left at their defaults: every fit       *)
(* starts at the zero vector, whatever was fitted before                   *)
StartingPoint_WarmStart(previous, n) ==
    IF previous = <<>> THEN [j \in 1..n |-> Rat(0, 1)]
    ELSE previous[Len(previous)].coefficients

StartingPoint(previous, n) == [j \in 1..n |-> Rat(0, 1)]

Sigmoid(z) == RatAdd(Rat(1, 2), RatMul(z, Rat(1, 4)))

LinearPredictor(d, i, w) ==
    RatSum([j \in 1..Len(d.columns) |-> RatMul(Rat(d.X[i][d.columns[j]], 1), w[j])])

(* y - p at the point w *)
Residual(d, w) ==
    [i \in 1..Len(d.X) |->
        RatAdd(Rat(d.y[i], 1), RatMul(Rat(-1, 1), Sigmoid(LinearPredictor(d, i, w))))] \o <<>>

LikelihoodStep(d, w) ==
    LET residual == Residual(d, w)
    IN [j \in 1..Len(d.columns) |->
           RatAdd(w[j], RatSum([i \in 1..Len(d.X) |->
                                   RatMul(Rat(d.X[i][d.columns[j]], 1), residual[i])]))] \o <<>>

EstimatorFit(d, start) ==
    LET w == LikelihoodStep(d, start)
    IN [params |-> w,
        predict |-> [i \in 1..Len(d.X) |-> Sigmoid(LinearPredictor(d, i, w))] \o <<>>]

(* X and y as run_robust_analysis and run_alternative_conditional_logit    *)
(* take them from the converted data                                       *)
EstimatorDesign ==
    IF script = "final_robust_conjoint_analysis"
    THEN DesignOf(choice_data, ProperFeatureCols,
                  [n \in 1..Len(choice_data) |-> choice_data[n].choice])
    ELSE LET data == create_dummy_variables(choice_data, get_all_attribute_levels)
             feature_cols == CLFeatureCols(data)
             diff_data == DifferenceData(data, feature_cols)
         IN DesignOf(diff_data, CLFinalFeatures(diff_data, feature_cols),
                     [n \in 1..Len(diff_data) |-> diff_data[n].chosen_a])

(* One run of the estimator of final_robust_conjoint_analysis.py or of     *)
(* conditional_logit_analysis.py: the coefficients and the percentage      *)
(* point effects it returns are added to the results                       *)
RunEstimator ==
    /\ pc \in {"converted", "estimated"}
    /\ script \in {"final_robust_conjoint_analysis", "conditional_logit_analysis"}
    /\ Len(results) < EstimatorRuns
    /\ \E d \in {EstimatorDesign} :
          /\ design' = d
          /\ IF SklearnRejects(d.columns, d.y)
             THEN /\ fit' = NoFit /\ results' = <<>>
                  /\ error' = "ValueError" /\ pc' = "aborted"
             ELSE \E result \in {EstimatorFit(d, StartingPoint(results, Len(d.columns)))} :
                    /\ fit' = result
                    /\ results' =
                         Append(results,
                                [X |-> d.X, y |-> d.y,
                                 coefficients |-> result.params,
                                 pp_effects |->
                                     IF script = "final_robust_conjoint_analysis"
                                     THEN calculate_pp_effects_final(result.params)
                                     ELSE calculate_ame_alternative(result, d.columns)])
                    /\ error' = "none"
                    /\ pc' = "estimated"
    /\ UNCHANGED <<files, utilities, importance, completed, df, lookup, rating_data, script, choice_data, caught>>

RepeatCells ==
    {Cell("A", ProfileHigh("plain"), ProfileLow("plain"), "4", "3"),
     Cell("B", Profile999("plain"), ProfileHigh("plain"), "3", "3"),
     Cell("B", ProfileHigh("plain"), ProfileLow("plain"), "3", "4")}

InitRepeat ==
    /\ df \in Tables(RepeatCells, AllColumns(Tasks))
    /\ InitCommon

NextRepeat ==
    \/ RunFinalBuilder
    \/ RunConditionalLogitBuilder
    \/ RunEstimator

SpecRepeat == InitRepeat /\ [][NextRepeat]_vars

----------------------------------------------------------------------------
(* conjoint_analysis.py: the methods of ConjointAnalyzer after the load *)

(* The attributes and levels of the dictionary _calculate_utilities starts *)
(* from, in the order of its keys; the first level is the reference        *)
UtilityAttributes ==
    <<"tutor", "color", "pricing", "message_success", "message_failure", "storytelling",
      "role_play">>

UtilityLevels ==
    [tutor |-> <<"Female", "Male">>,
     color |-> <<"Warm", "Tech">>,
     pricing |-> <<"Free", "$4.99", "$7.99", "$9.99", "$12.99">>,
     message_success |-> <<"Growth", "Brilliance">>,
     message_failure |-> <<"Supportive", "Neutral">>,
     storytelling |-> <<"Story", "No_Story">>,
     role_play |-> <<"Role_Play", "No_Role">>]

(* A column of pd.get_dummies(model_data[attr], prefix=attr) is the pair   *)
(* of its prefix and its value                                             *)
SimpleColumn(attr) == attr \o "_simple"

ConjointAnalyzer_reference_categories ==
    {<<SimpleColumn(UtilityAttributes[k]), UtilityLevels[UtilityAttributes[k]][1]>> :
        k \in 1..Len(UtilityAttributes)}

(* The dummy columns of the values a frame holds, NaN gives no column *)
ConjointAnalyzer_dummies(long_data) ==
    {<<SimpleColumn(UtilityAttributes[k]), long_data[i][SimpleColumn(UtilityAttributes[k])]>> :
        k \in 1..Len(UtilityAttributes), i \in 1..Len(long_data)}
    \ {<<SimpleColumn(UtilityAttributes[k]), NaN>> : k \in 1..Len(UtilityAttributes)}

(* feature_cols: the dummy columns that are no reference category, by      *)
(* attribute and level                                                     *)
ConjointAnalyzer_feature_cols(long_data) ==
    LET dummies == ConjointAnalyzer_dummies(long_data)
    IN SelectSeq(Flatten([k \in 1..Len(UtilityAttributes) |->
                             [j \in 1..Len(UtilityLevels[UtilityAttributes[k]]) |->
                                 <<SimpleColumn(UtilityAttributes[k]),
                                   UtilityLevels[UtilityAttributes[k]][j]>>]]),
                 LAMBDA col : col \in dummies /\ col \notin ConjointAnalyzer_reference_categories)

(* X = model_data[feature_cols], y = model_data['chosen'] *)
ConjointAnalyzer_design(long_data) ==
    LET feature_cols == ConjointAnalyzer_feature_cols(long_data)
    IN [columns |-> feature_cols,
        X |-> [i \in 1..Len(long_data) |->
                 [c \in {feature_cols[j] : j \in 1..Len(feature_cols)} |->
                    IF long_data[i][c[1]] = c[2] THEN 1 ELSE 0]],
        y |-> [i \in 1..Len(long_data) |-> long_data[i].chosen]]

(* The levels the if/elif chain of _calculate_utilities assigns: every     *)
(* price a pricing column names, the second level of the other attributes  *)
AssignedLevels(attr) ==
    IF attr = "pricing" THEN {UtilityLevels[attr][j] : j \in 1..Len(UtilityLevels[attr])}
    ELSE {UtilityLevels[attr][2]}

(* _calculate_utilities: every level at 0, then the coefficient of the     *)
(* column of a level that has one                                          *)
_calculate_utilities(feature_names, coefficients) ==
    [attr \in DOMAIN UtilityLevels |->
        [level \in {UtilityLevels[attr][j] : j \in 1..Len(UtilityLevels[attr])} |->
            LET at == {i \in 1..Len(feature_names) :
                          /\ feature_names[i] = <<SimpleColumn(attr), level>>
                          /\ level \in AssignedLevels(attr)}
            IN IF at = {} THEN Rat(0, 1) ELSE coefficients[CHOOSE i \in at : TRUE]]]

(* a / b of two floats: NaN, written <<0, 0>>, when both are 0 *)
NaNRat == <<0, 0>>
RatDiv(a, b) == IF b[1] = 0 THEN NaNRat ELSE RatMul(a, Rat(b[2], b[1]))

RECURSIVE RatMaxOf(_)
RatMaxOf(seq) == IF Len(seq) = 1 THEN seq[1] ELSE RatMax(Head(seq), RatMaxOf(Tail(seq)))
RECURSIVE RatMinOf(_)
RatMinOf(seq) == IF Len(seq) = 1 THEN seq[1] ELSE RatMin(Head(seq), RatMinOf(Tail(seq)))

(* The range of the pricing utilities, the absolute difference of the two  *)
(* utilities of every other attribute                                      *)
RawImportance(u, attr) ==
    LET values == [j \in 1..Len(UtilityLevels[attr]) |-> u[attr][UtilityLevels[attr][j]]]
    IN IF attr = "pricing"
       THEN RatAdd(RatMaxOf(values), RatMul(Rat(-1, 1), RatMinOf(values)))
       ELSE RatAbs(RatAdd(values[2], RatMul(Rat(-1, 1), values[1])))

(* _calculate_importance: (importance / total_importance) * 100 *)
_calculate_importance(u) ==
    LET total_importance ==
            RatSum([k \in 1..Len(UtilityAttributes) |-> RawImportance(u, UtilityAttributes[k])])
    IN [attr \in DOMAIN u |->
          LET share == RatDiv(RawImportance(u, attr), total_importance)
          IN IF share = NaNRat THEN NaNRat ELSE RatMul(share, Rat(100, 1))]

(* The calls made on one analyzer *)
MaxCalls == 4

(* self.long_data is None until _convert_to_long_format has returned *)
LongDataIsNone == pc = "loaded" \/ (pc = "aborted" /\ choice_data = <<>>)

(* ConjointAnalyzer.run_choice_modeling, with _calculate_utilities and     *)
(* _calculate_importance                                                   *)
ConjointAnalyzer_run_choice_modeling ==
    /\ script \in {"none", "conjoint_analysis"}
    /\ pc \in {"loaded", "aborted", "preprocessed"}
    /\ Len(completed) < MaxCalls
    /\ IF LongDataIsNone
       THEN /\ error' = "AttributeError"
            /\ UNCHANGED <<design, fit, utilities, importance, completed>>
       ELSE IF pc = "aborted"
       THEN /\ error' = "KeyError"
            /\ UNCHANGED <<design, fit, utilities, importance, completed>>
       ELSE \E d \in {ConjointAnalyzer_design(choice_data)} :
              /\ design' = d
              /\ IF SklearnRejects(d.columns, d.y)
                 THEN /\ error' = "ValueError"
                      /\ UNCHANGED <<fit, utilities, importance, completed>>
                 ELSE \E result \in {EstimatorFit(d, StartingPoint(<<>>, Len(d.columns)))} :
                      \E u \in {_calculate_utilities(d.columns, result.params)} :
                        /\ fit' = result
                        /\ utilities' = u
                        /\ importance' = _calculate_importance(u)
                        /\ completed' = Append(completed, "run_choice_modeling")
                        /\ error' = "none"
    /\ UNCHANGED <<files, df, lookup, rating_data, pc, script, choice_data, results, caught>>

(* The files of the eight plots, without their timestamp *)
VisualizationFiles ==
    {"01_attribute_importance.png", "02_partworth_utilities.png", "03_pricing_sensitivity.png",
     "04_choice_distribution.png", "05_perceived_learning.png", "06_expected_enjoyment.png",
     "07_storytelling_roleplay.png", "08_grade_distribution.png"}

(* ConjointAnalyzer.create_visualizations: the first four plots are made   *)
(* without a guard, the later ones inside try/except                       *)
ConjointAnalyzer_create_visualizations ==
    /\ script \in {"none", "conjoint_analysis"}
    /\ pc \in {"loaded", "aborted", "preprocessed"}
    /\ Len(completed) < MaxCalls
    /\ IF LongDataIsNone
       THEN error' = "AttributeError" /\ UNCHANGED <<completed, files>>
       ELSE IF "pricing" \notin DOMAIN utilities
       THEN /\ error' \in {"ValueError", "KeyError"}
            /\ files' = files \cup {"01_attribute_importance.png"}
            /\ UNCHANGED completed
       ELSE /\ error' = "none"
            /\ files' = files \cup VisualizationFiles
            /\ completed' = Append(completed, "create_visualizations")
    /\ UNCHANGED <<df, lookup, rating_data, pc, script, choice_data, design, fit, results,
                   caught, utilities, importance>>

(* Two respondents who saw the same two profiles in every task *)
AnalyzerCells ==
    {Cell("A", ProfileHigh("plain"), ProfileLow("plain"), "4", "3"),
     Cell("B", ProfileHigh("plain"), ProfileLow("plain"), "3", "4")}

AnalyzerTables ==
    {<<RowOf(first, AllColumns(Tasks)), RowOf(second, AllColumns(Tasks))>> :
        first \in CellRows(AnalyzerCells), second \in CellRows(AnalyzerCells)}

InitAnalyzer ==
    /\ df \in AnalyzerTables
    /\ InitCommon

NextAnalyzer ==
    \/ ConjointAnalyzer_load_and_preprocess_data
    \/ ConjointAnalyzer_run_choice_modeling
    \/ ConjointAnalyzer_create_visualizations

SpecAnalyzer == InitAnalyzer /\ [][NextAnalyzer]_vars

----------------------------------------------------------------------------
(* conjoint_results_analysis.py: the methods of ConjointResultsAnalyzer     *)
(* after the load                                                          *)

LowerAttrs == [k \in 1..Len(Attrs) |-> Lower(Attrs[k])]

_effects_code(value, attr) ==
    CASE attr = "tutor" -> Scalar(IF Contains("Female", value) THEN 1 ELSE -1)
      [] attr = "color_palette" -> Scalar(IF Contains("Friendly", value) THEN 1 ELSE -1)
      [] attr = "pricing" ->
            IF Contains("School pays", value) THEN Dict(PricingCode(1, 0, 0, 0, -1))
            ELSE IF Contains("$4.99", value) THEN Dict(PricingCode(0, 1, 0, 0, -1))
            ELSE IF Contains("$7.99", value) THEN Dict(PricingCode(0, 0, 1, 0, -1))
            ELSE IF Contains("$9.99", value) THEN Dict(PricingCode(0, 0, 0, 1, -1))
            ELSE Dict(PricingCode(-1, -1, -1, -1, 1))
      [] attr = "message_success_" ->
            Scalar(IF Contains("effort and persistence", value) THEN 1 ELSE -1)
      [] attr = "message_failure_" ->
            Scalar(IF Contains("mistakes are how scientists learn", value) THEN 1 ELSE -1)
      [] attr = "storytelling" ->
            Scalar(IF Contains("Space rescue story", value) THEN 1 ELSE -1)
      [] attr = "role_play" -> Scalar(IF Contains("Hero astronaut", value) THEN 1 ELSE -1)
      [] OTHER -> Scalar(0)

(* The keys one attribute adds to a model record: f'{attr}_{level}' for    *)
(* the pricing levels, f'{attr}_diff' otherwise                            *)
ModelColumnNames(attr, a_effects) ==
    IF a_effects.isdict
    THEN {<<attr, "_", PricingKeys[k]>> : k \in 1..Len(PricingKeys)}
    ELSE {<<attr, "_", "diff">>}

(* The A - B differences of the attributes the row has for both options *)
ModelDifferences(row) ==
    LET both == {LowerAttrs[k] : k \in {j \in 1..Len(LowerAttrs) :
                                           /\ ("A_" \o LowerAttrs[j]) \in DOMAIN row
                                           /\ ("B_" \o LowerAttrs[j]) \in DOMAIN row}}
        names == UNION {ModelColumnNames(attr, _effects_code(row["A_" \o attr], attr)) :
                           attr \in both}
    IN [c \in names |->
          LET a_effects == _effects_code(row["A_" \o c[1]], c[1])
              b_effects == _effects_code(row["B_" \o c[1]], c[1])
          IN IF a_effects.isdict
             THEN a_effects.d[c[3]]
                  - (IF c[3] \in DOMAIN b_effects.d THEN b_effects.d[c[3]] ELSE 0)
             ELSE a_effects.val - b_effects.val]

(* The record the loop of _prepare_model_data builds for one row *)
model_record(row) ==
    [respondent_id |-> row.respondent_id,
     task |-> row.task,
     chosen_option |-> row.chosen_option,
     choice_binary |-> row.choice_binary,
     x |-> ModelDifferences(row)]

(* The loop of _prepare_model_data from row i on: it builds the record of  *)
(* every row and leaves model_records as it is, no statement adds the      *)
(* record to the list                                                      *)
RECURSIVE PrepareFrom(_, _, _)
PrepareFrom(frame, i, model_records) ==
    IF i > Len(frame) THEN model_records
    ELSE LET record == model_record(frame[i])
         IN PrepareFrom(frame, i + 1, model_records)

(* ConjointResultsAnalyzer._prepare_model_data: pd.DataFrame(model_records) *)
_prepare_model_data(frame) == PrepareFrom(frame, 1, <<>>)

(* The columns of the frame that run_conjoint_analysis drops from X *)
DroppedColumns == {"respondent_id", "task", "chosen_option", "choice_binary"}

(* The columns of X in the order of the record's keys *)
ModelFeatureNames(model_data) ==
    SelectSeq(Flatten([k \in 1..Len(LowerAttrs) |->
                          <<<<LowerAttrs[k], "_", "diff">>>>
                          \o [j \in 1..Len(PricingKeys) |-> <<LowerAttrs[k], "_", PricingKeys[j]>>]]),
              LAMBDA c : \E i \in 1..Len(model_data) : c \in DOMAIN model_data[i].x)

(* The keys of attribute_mappings *)
attribute_mappings ==
    {<<"tutor", "_", "diff">>, <<"color_palette", "_", "diff">>, <<"pricing", "_", "free">>,
     <<"pricing", "_", "4.99">>, <<"pricing", "_", "7.99">>, <<"pricing", "_", "9.99">>,
     <<"message_success_", "_", "diff">>, <<"message_failure_", "_", "diff">>,
     <<"storytelling", "_", "diff">>, <<"role_play", "_", "diff">>}

(* sort_values('abs_effect', ascending=False) *)
RECURSIVE SortByAbsEffect(_)
SortByAbsEffect(rows) ==
    IF rows = <<>> THEN <<>>
    ELSE LET top == CHOOSE i \in 1..Len(rows) :
                      /\ \A j \in 1..Len(rows) :
                            ~RatLt(RatAbs(rows[i].Coefficient), RatAbs(rows[j].Coefficient))
                      /\ \A j \in 1..(i - 1) :
                            RatLt(RatAbs(rows[j].Coefficient), RatAbs(rows[i].Coefficient))
         IN <<rows[top]>>
            \o SortByAbsEffect(SubSeq(rows, 1, top - 1) \o SubSeq(rows, top + 1, Len(rows)))

(* _create_results_table: a row for every feature attribute_mappings names *)
_create_results_table(feature_names, coefficients, p_values, pp_effects) ==
    SortByAbsEffect(
        [k \in 1..Len(SelectSeq(feature_names, LAMBDA c : c \in attribute_mappings)) |->
            LET kept == {i \in 1..Len(feature_names) : feature_names[i] \in attribute_mappings}
                i == CHOOSE n \in kept : Cardinality({m \in kept : m <= n}) = k
            IN [Attribute |-> feature_names[i],
                Coefficient |-> coefficients[i],
                Raw_P_Value |-> p_values[i],
                pp_effect |-> pp_effects[i]]])

(* The p-values of the Wald test, one tier for all columns of a fit *)
WaldTiers == {Rat(1, 2000), Rat(3, 100), Rat(3, 5)}

(* self.choice_data and self.results_table are None until the method that *)
(* sets them has returned                                                  *)
ChoiceDataIsNone == pc \in {"loaded", "aborted"}
ResultsTableIsNone_Unguarded == FALSE
ResultsTableIsNone == pc # "analyzed"

(* ConjointResultsAnalyzer.run_conjoint_analysis *)
ConjointResultsAnalyzer_run_conjoint_analysis ==
    /\ script \in {"none", "conjoint_results_analysis"}
    /\ pc \in {"loaded", "aborted", "preprocessed"}
    /\ IF ChoiceDataIsNone
       THEN error' = "AttributeError" /\ UNCHANGED <<pc, design, fit, results>>
       ELSE \E model_data \in {_prepare_model_data(choice_data)} :
              IF ~(DroppedColumns \subseteq FrameColumns(model_data))
              THEN error' = "KeyError" /\ UNCHANGED <<pc, design, fit, results>>
              ELSE \E d \in {[columns |-> ModelFeatureNames(model_data),
                              X |-> [i \in 1..Len(model_data) |-> model_data[i].x],
                              y |-> [i \in 1..Len(model_data) |-> model_data[i].choice_binary]]} :
                     /\ design' = d
                     /\ IF SklearnRejects(d.columns, d.y)
                        THEN error' = "ValueError" /\ UNCHANGED <<pc, fit, results>>
                        ELSE \E result \in Fits(Len(d.columns), Len(d.X)), p \in WaldTiers :
                               /\ fit' = result
                               /\ results' = _create_results_table(
                                                 d.columns, result.params,
                                                 [j \in 1..Len(d.columns) |-> p],
                                                 calculate_pp_effects_final(result.params))
                               /\ error' = "none"
                               /\ pc' = "analyzed"
    /\ UNCHANGED <<files, utilities, importance, completed, df, lookup, rating_data, script,
                   choice_data, caught>>

(* The four methods that report results_table: each returns at once while  *)
(* it is None; create_visualization and save_results write their file      *)
(* when there is a table                                                   *)
ReportFile(method) ==
    CASE method = "create_visualization" -> {"conjoint_results_visualization.png"}
      [] method = "save_results" -> {"conjoint_results_table.csv"}
      [] OTHER -> {}

Report(method) ==
    /\ script \in {"none", "conjoint_results_analysis"}
    /\ Len(completed) < MaxCalls
    /\ IF ResultsTableIsNone
       THEN UNCHANGED files
       ELSE files' = files \cup ReportFile(method)
    /\ error' = "none"
    /\ completed' = Append(completed, method)
    /\ UNCHANGED <<utilities, importance, df, lookup, rating_data, pc, script, choice_data,
                   design, fit, results, caught>>

ConjointResultsAnalyzer_create_visualization == Report("create_visualization")
ConjointResultsAnalyzer_print_results_table == Report("print_results_table")
ConjointResultsAnalyzer_save_results == Report("save_results")
ConjointResultsAnalyzer_generate_summary_report == Report("generate_summary_report")

ResultsCells ==
    {Cell("A", ProfileHigh("plain"), ProfileLow("plain"), "4", "3"),
     Cell("B", Profile999("plain"), Profile499("plain"), "3", "4"),
     Cell("B", ProfileMid("plain"), ProfileMid("plain"), "3", "3")}

InitResults ==
    /\ df \in Tables(ResultsCells, AllColumns(Tasks))
    /\ InitCommon

NextResults ==
    \/ ConjointResultsAnalyzer_load_and_prepare_data
    \/ ConjointResultsAnalyzer_run_conjoint_analysis

SpecResults == InitResults /\ [][NextResults]_vars

(* The reporting methods called in any order on an analyzer whose CSV has  *)
(* or lacks the Grade column                                               *)
ReportCells == {Cell("A", ProfileHigh("plain"), ProfileLow("plain"), "4", "3")}

InitReports ==
    /\ df \in Tables(ReportCells, AllColumns(Tasks))
              \cup Tables(ReportCells, AllColumns(Tasks) \ {GradeCol})
    /\ InitCommon

NextReports ==
    \/ ConjointResultsAnalyzer_load_and_prepare_data
    \/ ConjointResultsAnalyzer_run_conjoint_analysis
    \/ ConjointResultsAnalyzer_create_visualization
    \/ ConjointResultsAnalyzer_print_results_table
    \/ ConjointResultsAnalyzer_save_results
    \/ ConjointResultsAnalyzer_generate_summary_report

SpecReports == InitReports /\ [][NextReports]_vars

----------------------------------------------------------------------------
(* enhanced_conjoint_analysis.py: the bootstrap of the robustness checks *)

(* The columns of a record of _prepare_conditional_logit_data besides its  *)
(* four identifying columns, in the order the record gets them: A_{attr}   *)
(* for the attributes that have an A_{attr}_effects column, then           *)
(* {attr}_diff for those that have the column of B as well                 *)
LogitDataColumns(frame) ==
    SelectSeq([k \in 1..Len(LowerAttrs) |-> "A_" \o LowerAttrs[k]],
              LAMBDA c : (c \o "_effects") \in FrameColumns(frame))
    \o SelectSeq([k \in 1..Len(LowerAttrs) |-> LowerAttrs[k] \o "_diff"],
                 LAMBDA c : \E k \in 1..Len(LowerAttrs) :
                               /\ c = LowerAttrs[k] \o "_diff"
                               /\ ("A_" \o LowerAttrs[k] \o "_effects") \in FrameColumns(frame)
                               /\ ("B_" \o LowerAttrs[k] \o "_effects") \in FrameColumns(frame))

(* record_a of one row; record_b only serves the differences *)
logit_record(frame, row) ==
    LET columns == LogitDataColumns(frame)
    IN [respondent_id |-> row.respondent_id,
        task |-> row.task,
        chosen_option |-> row.chosen_option,
        choice |-> IF row.chosen_option = "A" THEN 1 ELSE 0,
        x |-> [c \in {columns[j] : j \in 1..Len(columns)} |->
                 IF \E k \in 1..Len(LowerAttrs) : c = "A_" \o LowerAttrs[k]
                 THEN row[c \o "_effects"]
                 ELSE LET attr == CHOOSE a \in {LowerAttrs[k] : k \in 1..Len(LowerAttrs)} :
                                     c = a \o "_diff"
                      IN row["A_" \o attr \o "_effects"] - row["B_" \o attr \o "_effects"]]]

(* EnhancedConjointAnalyzer._prepare_conditional_logit_data on a frame *)
_prepare_conditional_logit_data(frame) ==
    [i \in 1..Len(frame) |-> logit_record(frame, frame[i])]

(* X = model_data.drop([...], axis=1), y = model_data['choice'] *)
LogitDesign(frame, model_data) ==
    [columns |-> LogitDataColumns(frame),
     X |-> [i \in 1..Len(model_data) |-> model_data[i].x],
     y |-> [i \in 1..Len(model_data) |-> model_data[i].choice]]

(* frame.sample(n=len(frame), replace=True): the row drawn for every       *)
(* position; the draws the model takes are a row repeated, a rotation and  *)
(* every second row taken twice                                            *)
ResampleIndexes(n) ==
    {[i \in 1..n |-> ((a * i + b) % n) + 1] : a \in {0, 1, 2}, b \in {0, 1}}

Resample(frame, index) == [i \in 1..Len(frame) |-> frame[index[i]]]

(* The data an iteration of the bootstrap hands to                         *)
(* _prepare_conditional_logit_data: the method takes no argument and reads *)
(* self.choice_data                                                        *)
BootstrapModelData(frame, bootstrap_data) == _prepare_conditional_logit_data(frame)

(* np.percentile(values, q) with linear interpolation, q in percent as a   *)
(* rational                                                                *)
RECURSIVE SortRat(_)
SortRat(values) ==
    IF values = <<>> THEN <<>>
    ELSE LET low == CHOOSE i \in 1..Len(values) :
                      \A j \in 1..Len(values) : ~RatLt(values[j], values[i])
         IN <<values[low]>>
            \o SortRat(SubSeq(values, 1, low - 1) \o SubSeq(values, low + 1, Len(values)))

Percentile(values, q) ==
    LET sorted == SortRat(values)
        position == RatMul(RatMul(q, Rat(1, 100)), Rat(Len(values) - 1, 1))
        below == position[1] \div position[2]
        fraction == RatAdd(position, Rat(-below, 1))
    IN IF below + 1 >= Len(values) THEN sorted[Len(values)]
       ELSE RatAdd(sorted[below + 1],
                   RatMul(fraction, RatAdd(sorted[below + 2],
                                           RatMul(Rat(-1, 1), sorted[below + 1]))))

(* EnhancedConjointAnalyzer._bootstrap_utilities(n_bootstrap): every        *)
(* iteration draws bootstrap_data, prepares the model data and fits        *)
EnhancedConjointAnalyzer_bootstrap_utilities ==
    /\ script = "enhanced_conjoint_analysis"
    /\ pc = "preprocessed"
    /\ \E draws \in [1..NBootstrap -> ResampleIndexes(Len(choice_data))] :
       \E runs \in {[i \in 1..NBootstrap |->
                       LET bootstrap_data == Resample(choice_data, draws[i])
                           model_data == BootstrapModelData(choice_data, bootstrap_data)
                       IN [bootstrap_data |-> bootstrap_data,
                           d |-> LogitDesign(choice_data, model_data)]] \o <<>>} :
          IF \E i \in 1..NBootstrap : SklearnRejects(runs[i].d.columns, runs[i].d.y)
          THEN /\ error' = "ValueError" /\ pc' = "aborted"
               /\ UNCHANGED <<design, fit, results>>
          ELSE \E bootstrap_utilities \in
                    {[i \in 1..NBootstrap |->
                        EstimatorFit(runs[i].d,
                                     StartingPoint(<<>>, Len(runs[i].d.columns))).params]
                     \o <<>>} :
                 /\ design' = runs[NBootstrap].d
                 /\ results' = [i \in 1..NBootstrap |->
                                  [bootstrap_data |-> runs[i].bootstrap_data,
                                   X |-> runs[i].d.X, y |-> runs[i].d.y,
                                   coefficients |-> bootstrap_utilities[i]]]
                 /\ fit' = [params |-> bootstrap_utilities[NBootstrap],
                            predict |-> <<>>,
                            ci_lower |-> [j \in 1..Len(design'.columns) |->
                                            Percentile([i \in 1..NBootstrap |->
                                                           bootstrap_utilities[i][j]],
                                                       Rat(5, 2))],
                            ci_upper |-> [j \in 1..Len(design'.columns) |->
                                            Percentile([i \in 1..NBootstrap |->
                                                           bootstrap_utilities[i][j]],
                                                       Rat(195, 2))]]
                 /\ error' = "none"
                 /\ pc' = "bootstrapped"
    /\ UNCHANGED <<files, utilities, importance, completed, df, lookup, rating_data, script,
                   choice_data, caught>>

BootstrapCells ==
    {Cell("A", ProfileHigh("plain"), ProfileLow("plain"), "4", "3"),
     Cell("B", Profile999("plain"), Profile499("plain"), "3", "4"),
     Cell("A", ProfileLow("plain"), ProfileHigh("plain"), "3", "3")}

InitBootstrap ==
    /\ df \in Tables(BootstrapCells, AllColumns(Tasks))
    /\ InitCommon

NextBootstrap ==
    \/ EnhancedConjointAnalyzer_load_and_preprocess_data
    \/ EnhancedConjointAnalyzer_bootstrap_utilities

SpecBootstrap == InitBootstrap /\ [][NextBootstrap]_vars

----------------------------------------------------------------------------
(* improved_conjoint_analysis.py: the column names of the dummy variables *)

NameCells(ty) ==
    {Cell("A", ProfileHigh(ty), ProfileLow(ty), "4", "3"),
     Cell("B", Profile999(ty), ProfileMid(ty), "3", "3"),
     Cell("A", Profile499(ty), ProfileLow(ty), "4", "4")}

InitNames ==
    /\ df \in UNION {Tables(NameCells(ty), AllColumns(Tasks)) : ty \in Typography}
    /\ InitCommon

NextNames ==
    \/ RunImprovedConjointBuilder
    \/ ParseDummyColumnNames

SpecNames == InitNames /\ [][NextNames]_vars

----------------------------------------------------------------------------
(* The two attribute analyses on the same tables; in the second and third  *)
(* cell both alternatives carry the same tutor, colours and messages       *)

ShareCells(ty) ==
    {Cell("A", ProfileHigh(ty), ProfileLow(ty), "4", "3"),
     Cell("A", Profile499(ty), ProfileMid(ty), "4", "4"),
     Cell("B", ProfileMid(ty), Profile499(ty), "3", "3")}

InitShares ==
    /\ df \in UNION {Tables(ShareCells(ty), AllColumns(Tasks)) : ty \in Typography}
    /\ InitCommon

NextShares ==
    \/ RunAttributeBuilder
    \/ RunAttributeAnalysis
    \/ RunComprehensiveBuilder
    \/ RunComprehensiveAnalysis

SpecShares == InitShares /\ [][NextShares]_vars

----------------------------------------------------------------------------
(* Specification of the builders over tables whose number of tasks and     *)
(* whose attributes vary: two respondents, alternative A always the        *)
(* profile with the Female tutor and B always the one with the Male tutor  *)

TaskCounts == {2, 8, 9}

AttributeSets == {{"Tutor"}, AttrSet}

TaskColumns(T, attrs) ==
    {GradeCol, ProlificCol}
    \cup {ChoiceCol(t) : t \in 1..T} \cup {LearningCol(t) : t \in 1..T}
    \cup {EnjoymentCol(t) : t \in 1..T}
    \cup {AttrCol(Alts[a], attr, t) : a \in 1..2, attr \in attrs, t \in 1..T}

(* choices holds the choices of the first two tasks of the two respondents *)
(* in row order; every later task is answered A                            *)
TutorTable(T, attrs, choices) ==
    [r \in 1..2 |->
        RowOf([t \in 1..T |->
                  Cell(IF t <= 2 THEN choices[2 * (r - 1) + t] ELSE "A",
                       ProfileHigh("plain"), ProfileLow("plain"), "4", "3")],
              TaskColumns(T, attrs))]

InitTasks ==
    /\ df \in {TutorTable(T, attrs, choices) :
                  T \in TaskCounts, attrs \in AttributeSets, choices \in [1..4 -> {"A", "B"}]}
    /\ InitCommon

NextTasks ==
    \/ RunProperBuilder
    \/ RunConditionalLogitBuilder

SpecTasks == InitTasks /\ [][NextTasks]_vars

----------------------------------------------------------------------------
(* Properties of the builders *)

RecordsOf(r, t) ==
    {i \in DOMAIN choice_data :
        choice_data[i].respondent_id = r - 1 /\ choice_data[i].task = t}

(* What a record says was selected: the raw value, or the decoded 1/0 code *)
Selection(rec) ==
    IF script = "simple_descriptive_conjoint" THEN rec.choice
    ELSE IF rec.choice = 1 THEN "A" ELSE "B"

InvalidChoices ==
    {rt \in (1..Len(df)) \X Tasks : df[rt[1]][ChoiceCol(rt[2])] \notin {"A", "B"}}

(* C1: for every respondent row r and task t in range the builder emits    *)
(* exactly one choice record for (r, t), and that record's selection       *)
(* equals the literal value of Task{t}_choice of row r.                    *)
C1_OneRecordWithLiteralSelection ==
    pc = "converted" =>
        \A r \in 1..Len(df), t \in Tasks :
            /\ Cardinality(RecordsOf(r, t)) = 1
            /\ \A i \in RecordsOf(r, t) : Selection(choice_data[i]) = df[r][ChoiceCol(t)]

(* C2: when Task{t}_choice is not 'A' or 'B' the builders that code the    *)
(* choice end with InvalidChoiceError and give no record a coded value.    *)
C2_InvalidChoiceRaises ==
    (/\ pc # "loaded"
     /\ script \in {"proper_conjoint_analysis", "final_robust_conjoint_analysis"}
     /\ InvalidChoices # {})
    => (error = "InvalidChoiceError" /\ choice_data = <<>>)

----------------------------------------------------------------------------
(* Properties of feature selection and of the result table *)

ColumnValues(c) == {design.X[n][c] : n \in 1..Len(design.X)}

ConstantColumns ==
    {j \in 1..Len(design.columns) : Cardinality(ColumnValues(design.columns[j])) = 1}

(* The levels shown in alternative A of every choice set and in B of none *)
AlwaysAOnly(levels) ==
    {i \in 1..Len(levels) :
        \A r \in 1..Len(df), t \in Tasks :
            /\ df[r][AttrCol("A", levels[i].attribute, t)] = levels[i].value
            /\ df[r][AttrCol("B", levels[i].attribute, t)] # levels[i].value}

IsExcluded(row) == row.significance = "excluded (collinear)"

RowsOfCode(code) == {n \in 1..Len(results) : results[n].level_code = code}

(* C3: no column that takes a single value over all rows of the design     *)
(* reaches the estimator; a level shown in A of every choice set and in B  *)
(* of none (difference 1 in every row) is reported as excluded and has no  *)
(* fitted coefficient.                                                     *)
C3_NoConstantColumnEstimated ==
    (pc = "analyzed" /\ script \in {"improved_conditional_logit", "granular_conjoint_analysis"})
    => /\ ConstantColumns = {}
       /\ \A i \in AlwaysAOnly(LevelTable) :
             /\ DiffName(LevelTable[i].code)
                    \notin {design.columns[j] : j \in 1..Len(design.columns)}
             /\ \A n \in RowsOfCode(LevelTable[i].code) : IsExcluded(results[n])

(* The columns of the design that code an attribute *)
ColumnsOfAttribute(levels, attr) ==
    {j \in 1..Len(design.columns) :
        \E i \in 1..Len(levels) :
            /\ levels[i].attribute = attr
            /\ StripDiff(design.columns[j]) = levels[i].code}

(* The levels of an attribute that occur in the table, in A or in B *)
ObservedLevels(levels, attr) ==
    {i \in 1..Len(levels) :
        /\ levels[i].attribute = attr
        /\ \E r \in 1..Len(df), t \in Tasks, a \in {"A", "B"} :
              df[r][AttrCol(a, attr, t)] = levels[i].value}

(* A level's difference column varies over the choice sets *)
DiffVaries(level) ==
    Cardinality({(IF df[r][AttrCol("A", level.attribute, t)] = level.value THEN 1 ELSE 0)
                 - (IF df[r][AttrCol("B", level.attribute, t)] = level.value THEN 1 ELSE 0) :
                     r \in 1..Len(df), t \in Tasks}) > 1

(* C4: an attribute with n levels of which k are absent from the table and *)
(* the others vary has exactly n-1-k columns in the design handed to the   *)
(* estimator by conditional_logit_analysis.py (4 for Pricing with all five *)
(* prices observed, 1 for a binary attribute).                             *)
C4_OneColumnLessThanLevels ==
    (script = "conditional_logit_analysis" /\ pc = "analyzed")
    => \A attr \in AttrSet :
          (\A i \in ObservedLevels(get_all_attribute_levels, attr) :
                DiffVaries(get_all_attribute_levels[i]))
          => Cardinality(ColumnsOfAttribute(get_all_attribute_levels, attr))
                = Cardinality(ObservedLevels(get_all_attribute_levels, attr)) - 1

(* A result row is an estimate of a fitted column or a placeholder *)
IsPlaceholder(row) ==
    row.coefficient = Rat(0, 1) /\ row.p_value = Rat(1, 1) /\ IsExcluded(row)

IsEstimated(row) ==
    DiffName(row.level_code) \in {design.columns[j] : j \in 1..Len(design.columns)}

(* C5: the result table has exactly one row per level of the level table,  *)
(* reference levels included; the row is the estimate of a fitted column   *)
(* or a placeholder with coefficient 0, p-value 1 and the excluded tier.   *)
C5_OneEstimatePerLevel ==
    (pc = "analyzed" /\ script \in {"conditional_logit_analysis",
                                    "corrected_granular_conjoint_analysis"})
    => \A i \in 1..Len(LevelTable) :
          /\ Cardinality(RowsOfCode(LevelTable[i].code)) = 1
          /\ \A n \in RowsOfCode(LevelTable[i].code) :
                /\ results[n].attribute = LevelTable[i].attribute
                /\ results[n].level = LevelTable[i].value
                /\ IsEstimated(results[n]) \/ IsPlaceholder(results[n])

(* C6: for every level of a level table, the column named code + '_diff'   *)
(* is looked up, after '_diff' is stripped, to the same level: the same    *)
(* attribute and the same level value; no two levels of a table share a    *)
(* code.                                                                   *)
C6_RoundTripRecoversLevel ==
    /\ lookup.stage = "decoded" =>
          /\ lookup.found # 0
          /\ LevelTable[lookup.found].attribute = LevelTable[lookup.level].attribute
          /\ LevelTable[lookup.found].value = LevelTable[lookup.level].value
    /\ \A i, j \in 1..Len(LevelTable) :
          LevelTable[i].code = LevelTable[j].code => i = j

C6_Witness ==
    /\ lookup.stage = "decoded"
    /\ script = "improved_conditional_logit"
    /\ LevelTable[lookup.level].value = FemaleTutor
    /\ lookup.column = <<"fe", "male_tutor", "_diff">>
    /\ LevelTable[lookup.found].value = FemaleTutor

(* mean over the choice sets of p(1 - p), from the fitted probabilities *)
MeanDerivative ==
    RatMean([i \in 1..Len(fit.predict) |->
                RatMul(fit.predict[i], RatAdd(Rat(1, 1), RatMul(Rat(-1, 1), fit.predict[i])))])

(* C9: the percentage-point effect of every estimated row is               *)
(* 100 x coefficient x mean p(1 - p) over the fitted probabilities.        *)
C9_EffectIsAverageMarginal ==
    (pc = "analyzed" /\ script \in {"final_robust_conjoint_analysis",
                                    "conditional_logit_analysis"})
    => \A n \in 1..Len(results) :
          IsPlaceholder(results[n])
          \/ RatEq(results[n].pp_effect,
                   RatMul(Rat(100, 1), RatMul(results[n].coefficient, MeanDerivative)))

(* C10: when the inversion of the covariance matrix or a bootstrap refit   *)
(* raised, the run ends with an error and writes no result row.            *)
C10_FailureSurfaced ==
    (pc # "loaded" /\ caught # <<>>) => (error # "none" /\ results = <<>>)


----------------------------------------------------------------------------
(* Properties of the analyzers' loading methods *)

(* The attribute columns the table lacks: (option, attribute, task) *)
AbsentAttributeColumns ==
    {c \in AttrCols(Tasks) : \E r \in 1..Len(df) : c \notin DOMAIN df[r]}

(* C7: when a column <Alt>_<Attribute><task> is absent from the table the  *)
(* loading fails with an error and leaves no record; no record of that     *)
(* (respondent, task, alternative) is emitted without the attribute.       *)
C7_AbsentColumnRaises ==
    (/\ pc # "loaded"
     /\ script \in {"conjoint_analysis", "conjoint_results_analysis"}
     /\ AbsentAttributeColumns # {})
    => (error # "none" /\ choice_data = <<>>)

(* The rows of the preprocessed data for a choice set: per alternative in  *)
(* the long table of ConjointAnalyzer, one row for both alternatives in    *)
(* the choice table of EnhancedConjointAnalyzer                            *)
RowsOfChoiceSet(r, t, option) ==
    {i \in 1..Len(choice_data) :
        /\ choice_data[i]["respondent_id"] = r - 1
        /\ choice_data[i]["task"] = t
        /\ script = "conjoint_analysis" => choice_data[i]["option"] = option}

(* C8: a run that did not abort kept, for every respondent and task of     *)
(* the table, the row of alternative A and the row of alternative B.       *)
C8_NoChoiceSetDropped ==
    (/\ pc = "preprocessed"
     /\ script \in {"conjoint_analysis", "enhanced_conjoint_analysis"})
    => \A r \in 1..Len(df), t \in Tasks, option \in {"A", "B"} :
          RowsOfChoiceSet(r, t, option) # {}

----------------------------------------------------------------------------
(* Properties of the significance tests *)

(* C11: the p-values of a run all come from one test: every reported       *)
(* p-value of a tested level is the chi-square p-value, or every one is    *)
(* the t-test p-value; none is the smaller of the two.                     *)
C11_OneSignificanceMethod ==
    (pc = "analyzed" /\ script = "corrected_attribute_analysis" /\ ~SingleClass(choice_data))
    => \E method \in {"chi2", "ttest"} :
          \A n \in 1..Len(results) :
             (results[n].present_n > 0 /\ results[n].absent_n > 0)
             => results[n].p_value = fit[method][n]

(* The fitted column of a result row *)
ColumnOfRow(n) ==
    CHOOSE j \in 1..Len(design.columns) :
        IF script = "final_robust_conjoint_analysis"
        THEN design.columns[j] = results[n].feature
        ELSE design.columns[j] = DiffName(results[n].level_code)

(* 2 x min(fraction of refits with coefficient <= 0, fraction >= 0) *)
TailProbabilityAtZero(j) ==
    LET coef_dist == [b \in 1..Len(fit.bootstrap) |-> fit.bootstrap[b][j]]
    IN RatMul(Rat(2, 1), RatMin(FractionAtMost(coef_dist, Rat(0, 1)),
                                FractionAtLeast(coef_dist, Rat(0, 1))))

(* C12: the bootstrap p-value of a coefficient is twice the smaller of the *)
(* fractions of refitted coefficients at or below zero and at or above     *)
(* zero (not below the floor of 1e-6 the code applies).                    *)
C12_BootstrapTailAtZero ==
    (/\ pc = "analyzed"
     /\ script \in {"final_robust_conjoint_analysis", "corrected_granular_conjoint_analysis"}
     /\ caught = <<>>)
    => \A n \in 1..Len(results) :
          RatEq(results[n].p_value,
                RatMax(TailProbabilityAtZero(ColumnOfRow(n)), Rat(1, 1000000)))

(* The scripts that estimate by maximum likelihood with statsmodels *)
MLEScripts ==
    {"conditional_logit_analysis", "improved_conditional_logit", "improved_conjoint_analysis"}

(* C13: a maximum-likelihood fit either converges or fails with an error   *)
(* surfaced to the caller: whenever estimates are returned as results the  *)
(* fit behind them has converged, and the estimates that                   *)
(* improved_conjoint_analysis returns for its conditional-logit fit are    *)
(* those of a conditional logit, never of another model fitted in its      *)
(* place after a swallowed exception.                                      *)
C13_ConvergedOrSurfaced ==
    (script \in MLEScripts /\ pc = "analyzed" /\ results # <<>>)
    => /\ fit.converged
       /\ script = "improved_conjoint_analysis"
          => (fit.model = "ConditionalLogit" /\ caught = <<>>)

(* C14: for 2 respondents x 2 tasks with only the Tutor attribute, A       *)
(* always the Female tutor and B always the Male tutor, and the choices    *)
(* A, B, A, A, convert_to_proper_choice_format yields 4 choice sets whose  *)
(* Tutor difference column is 2, -2, 2, 2.                                 *)
C14_TutorExample ==
    (/\ df = TutorTable(2, {"Tutor"}, <<"A", "B", "A", "A">>)
     /\ script = "proper_conjoint_analysis"
     /\ pc # "loaded")
    => /\ Len(choice_data) = 4
       /\ [n \in 1..4 |-> choice_data[n].x[<<"Tutor", "_", "diff">>]] = <<2, -2, 2, 2>>

(* The task numbers the table has columns for *)
TasksOf(table) ==
    {c[4] : c \in {col \in DOMAIN table[1] : col[1] = "Task" /\ col[3] = "_choice"}}

(* C16: for a table with T tasks per respondent a builder emits records    *)
(* for exactly the tasks 1..T of every respondent, whatever T is.          *)
C16_TasksAreOneToT ==
    (pc # "loaded" /\ AttrCols(TasksOf(df)) \subseteq DOMAIN df[1])
    => /\ pc = "converted"
       /\ \A r \in 1..Len(df) :
             {choice_data[n].task : n \in {m \in 1..Len(choice_data) :
                                              choice_data[m].respondent_id = r - 1}}
             = TasksOf(df)

(* The alternatives of the table that show a level, as <<row, task,        *)
(* alternative>>, and those of them that were chosen                       *)
ShownCells(attr, v) ==
    {x \in (1..Len(df)) \X Tasks \X (1..2) :
        /\ AttrCol(Alts[x[3]], attr, x[2]) \in DOMAIN df[x[1]]
        /\ df[x[1]][AttrCol(Alts[x[3]], attr, x[2])] = v}

ChosenCells(attr, v) ==
    {x \in ShownCells(attr, v) : df[x[1]][ChoiceCol(x[2])] = Alts[x[3]]}

ObservedValues(attr) ==
    {df[x[1]][AttrCol(Alts[x[3]], attr, x[2])] : x \in (1..Len(df)) \X Tasks \X (1..2)} \ {NaN}

(* The level codes in lexicographic order *)
LexicographicCodes ==
    << <<"brilliance_message">>, <<"fe", "male_tutor">>, <<"friendly_colors">>,
       <<"growth_message">>, <<"hero_astronaut">>, <<"male_tutor">>, <<"neutral_message">>,
       <<"no_specific_role">>, <<"no_story">>, <<"pricing_12.99">>, <<"pricing_4.99">>,
       <<"pricing_7.99">>, <<"pricing_9.99">>, <<"school_pays">>, <<"space_rescue_story">>,
       <<"supportive_message">>, <<"tech_colors">> >>

CodeRank(v) ==
    LET all == level_mapping \o LevelsWith(SupportiveMsgCurly, NeutralMsgCurly, RescueStoryCurly)
        code == all[CHOOSE i \in 1..Len(all) : all[i].value = v].code
    IN CHOOSE i \in 1..Len(LexicographicCodes) : LexicographicCodes[i] = code

(* The level with the lowest raw choice share, the lexicographically first *)
(* code among equal shares                                                 *)
LowestShareLevel(attr) ==
    CHOOSE v \in ObservedValues(attr) :
        \A w \in ObservedValues(attr) \ {v} :
            LET left == Cardinality(ChosenCells(attr, v)) * Cardinality(ShownCells(attr, w))
                right == Cardinality(ChosenCells(attr, w)) * Cardinality(ShownCells(attr, v))
            IN left < right \/ (left = right /\ CodeRank(v) < CodeRank(w))

(* The values of a source column that the effects coding of the frame      *)
(* treats as the reference: those coded -1                                 *)
ReferenceValues(frame, col) ==
    {frame[i][col] : i \in {j \in 1..Len(frame) :
        \E k \in {col \o "_effects", col \o "_effects_0"} :
            k \in DOMAIN frame[j] /\ frame[j][col] # NaN /\ frame[j][k] = -1}}

(* C15: the reference level of an attribute is the level with the lowest   *)
(* raw choice share in the data, ties broken by the lexicographic order of *)
(* the level codes, whatever the order in which the levels are first met:  *)
(* in improved_conjoint_analysis the one observed level without a dummy    *)
(* column, in EnhancedConjointAnalyzer the one value coded -1 in a source  *)
(* column with several values.                                             *)
C15_ReferenceIsLowestShare ==
    /\ (script = "improved_conjoint_analysis" /\ pc = "analyzed")
       => \A attr \in {design.columns[j][1] : j \in 1..Len(design.columns)} \ {"const"} :
             ObservedValues(attr)
                \ {design.columns[j][2] : j \in {i \in 1..Len(design.columns) :
                                                    design.columns[i][1] = attr}}
             = {LowestShareLevel(attr)}
    /\ (script = "enhanced_conjoint_analysis" /\ pc = "preprocessed")
       => \A attr \in AttrSet : \A option \in {"A", "B"} :
             LET col == RecordKey("option", option, attr)
             IN (/\ col \in FrameColumns(choice_data)
                 /\ Cardinality({choice_data[i][col] : i \in 1..Len(choice_data)} \ {NaN}) > 1)
                => ReferenceValues(choice_data, col) = {LowestShareLevel(attr)}

(* C18: in the per-alternative long format the perceived-learning and      *)
(* expected-enjoyment ratings of a task are attached only to the row of    *)
(* the chosen alternative; the row of the alternative that was not chosen  *)
(* carries no rating value.                                                *)
C18_RatingsOnChosenRowOnly ==
    (/\ script \in {"conjoint_analysis", "improved_conjoint_analysis"}
     /\ pc \in {"converted", "preprocessed", "analyzed"})
    => \A n \in 1..Len(choice_data) :
          choice_data[n].chosen = 0
          => /\ choice_data[n].perceived_learning = NaN
             /\ choice_data[n].expected_enjoyment = NaN

(* C20: run_corrected_analysis removes exactly the 7 difference columns of *)
(* the reference categories (pricing_7.99, male_tutor, tech_colors,        *)
(* brilliance_message, neutral_message, space_rescue_story,                *)
(* no_specific_role) and keeps the other 10 of the 17 level columns as     *)
(* model features, female_tutor_diff among them.                           *)
C20_ExactlyReferenceColumnsRemoved ==
    (script = "corrected_granular_conjoint_analysis" /\ pc = "analyzed")
    => LET kept == {design.columns[j] : j \in 1..Len(design.columns)}
           all == {DiffName(code) : code \in {corrected_get_all_attribute_levels[i].code :
                                                 i \in 1..Len(corrected_get_all_attribute_levels)}}
           removed == {DiffName(reference_categories[r]) : r \in 1..Len(reference_categories)}
       IN /\ Cardinality(all) = 17
          /\ all \ kept = removed
          /\ Cardinality(kept) = 10
          /\ DiffName(<<"fe", "male_tutor">>) \in kept

LoadedThenModeled(k) ==
    \E i, j \in 1..(k - 1) :
        /\ i < j
        /\ completed[i] = "load_and_preprocess_data"
        /\ completed[j] = "run_choice_modeling"

IsPercentage(v) == v # NaNRat /\ ~RatLt(v, Rat(0, 1)) /\ ~RatLt(Rat(100, 1), v)

C19_OnlyAfterLoadAndModeling ==
    \A k \in 1..Len(completed) :
        completed[k] = "create_visualizations" => LoadedThenModeled(k)

C19_EveryLevelHasUtility ==
    LoadedThenModeled(Len(completed) + 1)
    => /\ DOMAIN utilities = {UtilityAttributes[k] : k \in 1..Len(UtilityAttributes)}
       /\ \A attr \in DOMAIN utilities :
             /\ DOMAIN utilities[attr]
                  = {UtilityLevels[attr][j] : j \in 1..Len(UtilityLevels[attr])}
             /\ utilities[attr][UtilityLevels[attr][1]] = Rat(0, 1)

C19_ImportanceIsPercentage ==
    LoadedThenModeled(Len(completed) + 1)
    => /\ DOMAIN importance = {UtilityAttributes[k] : k \in 1..Len(UtilityAttributes)}
       /\ \A attr \in DOMAIN importance : IsPercentage(importance[attr])

(* C19: create_visualizations completes on a ConjointAnalyzer only after   *)
(* load_and_preprocess_data and then run_choice_modeling have run in that  *)
(* order, and in the state reached by that sequence utilities holds a      *)
(* value for every level of all 7 attributes, the reference levels at 0,   *)
(* and importance holds one percentage per attribute                       *)
C19_VisualizationsAfterModeling ==
    /\ C19_OnlyAfterLoadAndModeling
    /\ C19_EveryLevelHasUtility
    /\ C19_ImportanceIsPercentage


(* C21: _prepare_model_data returns exactly one model record per row of    *)
(* choice_data, each carrying the effects-coded A-minus-B difference       *)
(* columns, and the model of run_conjoint_analysis is fitted on as many    *)
(* rows as there are choice observations                                   *)
C21_OneModelRecordPerChoice ==
    (script = "conjoint_results_analysis" /\ ~ChoiceDataIsNone)
    => /\ Len(_prepare_model_data(choice_data)) = Len(choice_data)
       /\ \A i \in 1..Len(_prepare_model_data(choice_data)) :
             _prepare_model_data(choice_data)[i].x = ModelDifferences(choice_data[i])
       /\ pc = "analyzed" => Len(design.X) = Len(choice_data)

(* A step of one of the four reporting methods of ConjointResultsAnalyzer *)
ReportStep ==
    \/ ConjointResultsAnalyzer_create_visualization
    \/ ConjointResultsAnalyzer_print_results_table
    \/ ConjointResultsAnalyzer_save_results
    \/ ConjointResultsAnalyzer_generate_summary_report

(* C27: while results_table is None, print_results_table, save_results,    *)
(* generate_summary_report and create_visualization each return without    *)
(* writing a file and leave the state of the analyzer as it was            *)
C27_ReportsReturnWhileNone ==
    [][(pc # "analyzed" /\ ReportStep)
       => /\ files' = files
          /\ error' = "none"
          /\ UNCHANGED <<df, choice_data, results, design, fit, pc>>]_vars

C27_Witness ==
    /\ pc = "preprocessed"
    /\ error = "none"
    /\ script = "conjoint_results_analysis"
    /\ {completed[k] : k \in 1..Len(completed)}
         = {"create_visualization", "print_results_table", "save_results",
            "generate_summary_report"}
    /\ files = {}


(* C22: every iteration of _bootstrap_utilities fits its model on the      *)
(* resample it drew from choice_data, so two iterations whose resamples    *)
(* differ are fitted on different data                                     *)
C22_FittedOnOwnResample ==
    (script = "enhanced_conjoint_analysis" /\ pc = "bootstrapped")
    => /\ \A i \in 1..Len(results) :
             results[i].X = LogitDesign(results[i].bootstrap_data,
                                        _prepare_conditional_logit_data(
                                            results[i].bootstrap_data)).X
       /\ \A a, b \in 1..Len(results) :
             results[a].bootstrap_data # results[b].bootstrap_data
             => <<results[a].X, results[a].y>> # <<results[b].X, results[b].y>>


(* C23: in EnhancedConjointAnalyzer a level has the same effects code      *)
(* (+1 or -1) in the column of alternative A and in the column of          *)
(* alternative B, whatever the order in which the levels first appear in   *)
(* the two columns                                                         *)
C23_SameCodeInBothAlternatives ==
    (script = "enhanced_conjoint_analysis" /\ pc \in {"preprocessed", "bootstrapped"})
    => \A k \in 1..Len(LowerAttrs) :
         LET a_col == "A_" \o LowerAttrs[k]
             b_col == "B_" \o LowerAttrs[k]
         IN ({a_col \o "_effects", b_col \o "_effects"} \subseteq FrameColumns(choice_data))
            => \A i, j \in 1..Len(choice_data) :
                  choice_data[i][a_col] = choice_data[j][b_col]
                  => choice_data[i][a_col \o "_effects"] = choice_data[j][b_col \o "_effects"]

(* C24: every dummy column that create_dummy_variables creates, those of   *)
(* Message_success_ and Message_failure_ included, is a feature column of  *)
(* run_conditional_logit_analysis, and no other column is                  *)
C24_EveryDummyColumnIsFeature ==
    (script = "improved_conjoint_analysis" /\ pc = "analyzed")
        => {design.columns[j] : j \in 1..Len(design.columns)}
              = {DummyColumns(choice_data)[j] : j \in 1..Len(DummyColumns(choice_data))}

(* C25: for every dummy column named after a non-baseline level,          *)
(* parse_feature_name returns that level's own attribute and level, never  *)
(* ('Unknown', name)                                                       *)
C25_NameParsesToOwnLevel ==
    pc = "parsed" => \A j \in 1..Len(lookup) : lookup[j].parsed = lookup[j].column

(* C26: every p-value calculate_bootstrap_p_values returns lies between    *)
(* 1e-6 and 1, also for an original coefficient that is exactly 0          *)
C26_BootstrapPValueInRange ==
    (pc = "analyzed" /\ script = "final_robust_conjoint_analysis")
    => \A n \in 1..Len(results) :
          /\ ~RatLt(results[n].p_value, Rat(1, 1000000))
          /\ ~RatLt(Rat(1, 1), results[n].p_value)

(* C28: analyze_single_attribute and analyze_single_attribute_corrected    *)
(* give every level the same overall choice share on the same data, also   *)
(* when there are choice sets whose two alternatives both carry the level  *)
C28_SameOverallChoiceShare ==
    (pc = "analyzed" /\ script = "comprehensive_attribute_analysis")
    => \A n \in 1..Len(results) :
          RatEq(results[n].choice_share,
                analyze_single_attribute_corrected(
                    convert_to_choice_format_corrected(df), AnalyzedLevels(df)[n], n,
                    CHOOSE tests \in StatTests : TRUE).choice_share)

====
